---- MODULE Spec2Model ----
(***************************************************************************)
(* NetVault: the Device Manager (core/engine/device_manager.py), the audit *)
(* engine's device audit (core/engine/audit_engine.py) and the connector   *)
(* contract (connectors/base.py), as a state machine of asyncio tasks.     *)
(* One action is one uninterrupted run of a coroutine between two of its   *)
(* suspension points (await of I/O, of a semaphore, of the event loop).    *)
(***************************************************************************)
EXTENDS Integers, FiniteSets, Sequences, Bags, TLC

\* ---------------------------------------------------------------- bounds
\* device ids
NumDevices == 2
\* entry-point calls (poll_all, poll_device, ...) made in one behaviour
MaxOps == 2
\* largest explicit max_concurrent poll_all is called with
MaxConcurrent == 2

\* asyncio.Semaphore(5) of __init__, and the default of poll_all(max_concurrent=5)
DefaultConcurrency == 5

\* most checks in the result of one run_audit or one network audit
MaxChecks == 2
\* device_id=0 of the audit log and the alerts of run_network_audit
GlobalDeviceId == 0
\* largest max_retries a REST connector is configured with
MaxRetries == 4
\* credentials.get("max_retries", 3) of RESTConnector.__init__
DefaultMaxRetries == 3

DeviceIds == 1..NumDevices
\* coroutines in flight at once: one poll_all fan-out next to the other calls
MaxTasks == NumDevices + MaxOps - 1
\* a connector object is referenced by the cache slot of its device or by a task
ConnIds == 1..(NumDevices + MaxTasks)
\* a semaphore object is referenced by self._semaphore or by a task
SemIds == 1..(MaxTasks + 1)
\* the values poll_all is called with: explicit small limits and the default
Limits == (1..MaxConcurrent) \cup {DefaultConcurrency}

\* how a device row names its credential (config_json.credential_name,
\* credential_id, or neither) and whether the lookups succeed.
\* name_*: config_json names a credential the vault has / has not;
\* id_*: credential_id points to a record whose name the vault has (ok) or has
\* not (missing), or to no record (dangling); none: neither is set
CredKinds == {"name_ok", "name_missing", "id_ok", "id_missing", "id_dangling", "none"}
AllConfigs == [registered : BOOLEAN, cred : CredKinds]

VARIABLES
    cfg,          \* devices table: id -> connector type registered?, credential reference
    db_status,    \* devices table: id -> status column, "absent" when there is no row
    devices,      \* self._devices: id -> status of the loaded row, or "absent"
    connectors,   \* self._connectors: id -> connector object (0: no entry)
    is_connected, \* connector object -> BaseConnector._is_connected
    cache,        \* self._cache: id -> the keys of the entry ({}: no entry)
    semaphore,    \* self._semaphore: the semaphore object now installed
    sem_value,    \* semaphore object -> _value (free permits)
    sem_cap,      \* semaphore object -> the value it was constructed with (0: unused)
    task,         \* the coroutines in flight or just returned: a bag of their locals
    pa,           \* the poll_all coroutine: position and its max_concurrent
    ops,          \* entry-point calls made so far
    na,           \* the run_network_audit coroutine: position, locals, what it stored
    net,          \* the cross-device analyses: the tables and what they found
    ssh,          \* one SSHConnector: its fields and the call in progress
    snmp,         \* one SNMPConnector: its fields and the call in progress
    vault,        \* the credential_store table and the last CredentialVault call
    sched,        \* the NetVaultScheduler: its config, its jobs and the last call
    snmp_poll,    \* the retrieval calls of one poll on an SNMPConnector
    rest,         \* the RESTConnector of the device a poll is made on
    target,       \* the ip of each device row (store, loaded) and of each connector
    req           \* one RESTConnector._request call: its locals and what it did

\* the state of the Device Manager and of the coroutines it runs
dm_vars == <<cfg, db_status, devices, connectors, is_connected, cache, semaphore,
             sem_value, sem_cap, task, pa, ops, na, net, ssh, snmp,
             vault, sched, snmp_poll, rest, target>>

vars == <<dm_vars, req>>

\* -------------------------------------------------------------- coroutines
\* the locals of a coroutine that has not run yet (gc: why get_connector
\* returned None to it, as its log line says; checks: the statuses of the
\* checks run_audit returned; log, alerts: the status of the audit log and the
\* severities of the alerts this run has stored; io: "failed" once a store
\* call of the audit raised)
NewTask(kind, d, parent) ==
    [kind |-> kind, dev |-> d, pc |-> "spawned", parent |-> parent, sem |-> 0,
     conn |-> 0, connected |-> "none", k |-> 0, ifaces |-> "none",
     status |-> "none", writes |-> 0, exc |-> FALSE, result |-> "none",
     gc |-> "none", checks |-> <<>>, log |-> "none", alerts |-> <<>>,
     io |-> "ok"]

TaskSet == BagToSet(task)

\* the whole state as one record, so that the synchronous stretches of a
\* coroutine compose as functions
Cur ==
    [cfg |-> cfg, db_status |-> db_status, devices |-> devices,
     connectors |-> connectors, is_connected |-> is_connected, cache |-> cache,
     semaphore |-> semaphore, sem_value |-> sem_value, sem_cap |-> sem_cap,
     task |-> task, pa |-> pa, ops |-> ops, na |-> na, net |-> net,
     ssh |-> ssh, snmp |-> snmp, vault |-> vault, sched |-> sched,
     snmp_poll |-> snmp_poll, rest |-> rest, target |-> target, req |-> req]

Becomes(S) ==
    /\ cfg' = S.cfg
    /\ db_status' = S.db_status
    /\ devices' = S.devices
    /\ connectors' = S.connectors
    /\ is_connected' = S.is_connected
    /\ cache' = S.cache
    /\ semaphore' = S.semaphore
    /\ sem_value' = S.sem_value
    /\ sem_cap' = S.sem_cap
    /\ task' = S.task
    /\ pa' = S.pa
    /\ ops' = S.ops
    /\ na' = S.na
    /\ net' = S.net
    /\ ssh' = S.ssh
    /\ snmp' = S.snmp
    /\ vault' = S.vault
    /\ sched' = S.sched
    /\ snmp_poll' = S.snmp_poll
    /\ rest' = S.rest
    /\ target' = S.target
    /\ req' = S.req

Min(X) == CHOOSE x \in X : \A y \in X : x <= y

\* the state with the coroutine r taken out to run, and with it put back
Take(S, r) == [S EXCEPT !.task = @ (-) SetToBag({r})]
Put(S, r) == [S EXCEPT !.task = @ (+) SetToBag({r})]

\* the configuration column of an id the store has no row for
NoConfig == [registered |-> FALSE, cred |-> "none"]

\* a _request call that has not been made, on a connector built with
\* max_retries = m
NoRequest(m) ==
    [pc |-> "idle", max_retries |-> m, attempt |-> 0, sent |-> 0,
     responses |-> <<>>, slept |-> <<>>, error |-> "none"]

\* DeviceManager.__init__: empty maps and Semaphore(5); the store holds the
\* rows Rows, each with a status of RowStatuses ("unknown" is the default of
\* the status column, the others are left by earlier polls)
InitStore(Configs, Rows, RowStatuses) ==
    /\ cfg \in [DeviceIds -> Configs \cup {NoConfig}]
    /\ \A d \in DeviceIds : IF d \in Rows THEN cfg[d] \in Configs ELSE cfg[d] = NoConfig
    /\ db_status \in [DeviceIds -> RowStatuses \cup {"absent"}]
    /\ \A d \in DeviceIds : IF d \in Rows THEN db_status[d] \in RowStatuses
                                          ELSE db_status[d] = "absent"
    /\ devices = [d \in DeviceIds |-> "absent"]
    /\ connectors = [d \in DeviceIds |-> 0]
    /\ is_connected = [c \in ConnIds |-> FALSE]
    /\ cache = [d \in DeviceIds |-> {}]
    /\ semaphore = 1
    /\ sem_value = [s \in SemIds |-> IF s = 1 THEN DefaultConcurrency ELSE 0]
    /\ sem_cap = [s \in SemIds |-> IF s = 1 THEN DefaultConcurrency ELSE 0]
    /\ task = EmptyBag
    /\ pa = [pc |-> "idle", n |-> 0]
    /\ ops = 0
    /\ na = [pc |-> "idle", online |-> {}, all_data |-> <<>>, checks |-> <<>>,
             k |-> 0, logs |-> <<>>, alerts |-> <<>>]
    /\ target = [store |-> [d \in DeviceIds |-> IF d \in Rows THEN "192.168.1.10"
                                                              ELSE "none"],
                 loaded |-> [d \in DeviceIds |-> "none"],
                 conn |-> [c \in ConnIds |-> "none"]]

\* no ARP table has been retrieved and nothing analysed
NoAnalysis ==
    [pc |-> "idle", kind |-> <<>>, seen |-> <<>>, fdb |-> <<>>, inventory |-> <<>>,
     all_data |-> <<>>, dup_ips |-> <<>>, dup_macs |-> <<>>, orphans |-> {},
     checks |-> {}]

\* SSHConnector.__init__ with the device_type of the credentials ("auto"
\* when there is none): no client, not connected, no call made
NewSession(device_type) ==
    [pc |-> "idle", device_type |-> device_type, is_connected |-> FALSE,
     probed |-> "no", probe |-> {}, versioned |-> "no", version |-> {},
     method |-> "none", result |-> "none"]

\* the value of credentials.get(key) when the key is missing
Absent == "absent"

\* SNMPConnector.__init__ and _build_auth_data with the "version" and the
\* "community" of the credentials: version defaults to "v2c", and the
\* CommunityData of a v2c connector to "public"
NewSnmp(version, community) ==
    LET v == IF version = Absent THEN "v2c" ELSE version
    IN  [pc |-> "idle", version |-> v,
         credentials |-> [version |-> version, community |-> community],
         auth_community |-> IF v # "v2c" THEN "none"
                            ELSE IF community = Absent THEN "public" ELSE community,
         transport_target |-> FALSE, is_connected |-> FALSE,
         audited |-> FALSE, checks |-> <<>>]

\* what get_credential returns for a name without a row
NoCredential == [found |-> FALSE, data |-> <<>>]

\* an empty credential_store table and no call made; latest is the map
\* last stored under each name
EmptyVault ==
    [rows |-> <<>>, latest |-> <<>>, op |-> "none", name |-> "none",
     result |-> NoCredential]

\* audit.scheduled_time as the configuration gives it when it is not set
DefaultAuditTime == <<"0", "2", ":", "0", "0">>

\* NetVaultScheduler.__init__: the configuration and an AsyncIOScheduler that
\* is not running and has no job; jobs are the jobs of its job store, pending
\* the jobs added while it is not running; call, job_id and log are the last
\* call made on the scheduler and the log line it wrote
NewScheduler(enabled, scheduled_time) ==
    [enabled |-> enabled, scheduled_time |-> scheduled_time, running |-> FALSE,
     jobs |-> <<>>, pending |-> <<>>, call |-> "none", job_id |-> "none",
     log |-> "NetVault Scheduler initialized"]

\* an SNMP device with the given sysDescr on which no retrieval call has been
\* made: pending are the GETs or WALKs the call in progress has still to make,
\* info and walk_data its locals, calls the calls that have returned (with
\* "raised" after one that raised), system_info and interfaces their results,
\* log the GETs and WALKs whose failure was logged
NoSnmpPoll(descr) ==
    [pc |-> "idle", descr |-> descr, pending |-> <<>>, info |-> <<>>,
     walk_data |-> <<>>, calls |-> <<>>, system_info |-> <<>>,
     interfaces |-> {}, log |-> {}]

\* RESTConnector.__init__ with the generic profile and the given keys in its
\* endpoints map: no HTTP request sent, none answered 200, nothing retrieved
NewRest(endpoints) ==
    [endpoints |-> endpoints, contacted |-> FALSE, got_ok |-> FALSE,
     system_info |-> "none", interfaces |-> "none"]

\* the parts of the state a specification does not use stay as constructed
Apart(Used) ==
    /\ IF "req" \in Used THEN TRUE ELSE req = NoRequest(DefaultMaxRetries)
    /\ IF "net" \in Used THEN TRUE ELSE net = NoAnalysis
    /\ IF "ssh" \in Used THEN TRUE ELSE ssh = NewSession("auto")
    /\ IF "snmp" \in Used THEN TRUE ELSE snmp = NewSnmp(Absent, Absent)
    /\ IF "vault" \in Used THEN TRUE ELSE vault = EmptyVault
    /\ IF "sched" \in Used THEN TRUE ELSE sched = NewScheduler(TRUE, DefaultAuditTime)
    /\ IF "snmp_poll" \in Used THEN TRUE ELSE snmp_poll = NoSnmpPoll("Linux")
    /\ IF "rest" \in Used THEN TRUE ELSE rest = NewRest({})

\* a store of newly created rows
InitManager(Configs, Rows) ==
    InitStore(Configs, Rows, {"unknown"}) /\ Apart({"req"})

\* the manager as constructed, and no REST request in progress
InitWith(Configs, Rows) ==
    /\ InitManager(Configs, Rows)
    /\ req = NoRequest(DefaultMaxRetries)

\* ------------------------------------------------- objects and their ids
\* a new object takes the least id nothing refers to; an object nothing
\* refers to any more is forgotten (its fields go back to their blank value)
ConnRefs(S) ==
    {S.connectors[d] : d \in DeviceIds} \cup {r.conn : r \in BagToSet(S.task)}

SemRefs(S) == {S.semaphore} \cup {r.sem : r \in BagToSet(S.task)}

Collect(S) ==
    [S EXCEPT
        !.is_connected = [c \in ConnIds |->
                            IF c \in ConnRefs(S) THEN S.is_connected[c] ELSE FALSE],
        !.target.conn = [c \in ConnIds |->
                            IF c \in ConnRefs(S) THEN S.target.conn[c] ELSE "none"],
        !.sem_value = [s \in SemIds |->
                            IF s \in SemRefs(S) THEN S.sem_value[s] ELSE 0],
        !.sem_cap = [s \in SemIds |->
                            IF s \in SemRefs(S) THEN S.sem_cap[s] ELSE 0]]

\* a direct call that has returned hands its result to its caller before any
\* other coroutine runs on (the returned coroutine takes no further part)
ReturnPending == \E r \in TaskSet : r.pc = "done" /\ r.parent = 0

\* one run of a coroutine from state to state (the state it ends in is
\* computed once)
Runs(S) ==
    /\ ~ReturnPending
    /\ \E T \in {S} : \E U \in {Collect(T)} : Becomes(U)

\* kinds of coroutine that run inside "async with self._semaphore"
Gated == {"poll", "refresh"}

\* ------------------------------------------------ leaving a coroutine
\* faulty variant of finish: the coroutine returns with its permit
finish_keeping_permit(S, r) ==
    Put(S, [r EXCEPT !.pc = "done", !.sem = 0, !.k = 0,
                     !.connected = "none", !.ifaces = "none"])

\* the coroutine r returns: __aexit__ of the semaphore releases the permit;
\* of its locals only what the caller can observe is kept
finish(S, r) ==
    LET S1 == IF r.sem # 0
              THEN [S EXCEPT !.sem_value[r.sem] = @ + 1]
              ELSE S
    IN  Put(S1, [r EXCEPT !.pc = "done", !.sem = 0, !.k = 0,
                          !.connected = "none", !.ifaces = "none"])

\* BaseConnector contract: disconnect() clears _is_connected
disconnect(S, c) == [S EXCEPT !.is_connected[c] = FALSE]

\* faulty variant of finally: returns without disconnecting
finally_without_disconnect(S, r) == finish(S, r)

\* finally: if connector.is_connected: await connector.disconnect()
finally(S, r) ==
    IF r.conn # 0 /\ S.is_connected[r.conn]
    THEN finish(disconnect(S, r.conn), r)
    ELSE finish(S, r)

\* _update_device_status up to its await: the loaded row, when there is one,
\* takes the status at once; the store is written when update_device runs
update_device_status(S, r, status) ==
    LET S1 == IF S.devices[r.dev] # "absent"
              THEN [S EXCEPT !.devices[r.dev] = status]
              ELSE S
    IN  Put(S1, [r EXCEPT !.status = status, !.writes = @ + 1, !.pc = "db_write"])

\* ------------------------------------------------------- get_connector
\* await connector.connect() / await connector.test_connection()
call_connector(S, r, c) ==
    Put(S, [r EXCEPT !.conn = c,
                     !.pc = IF r.kind = "test" THEN "testing" ELSE "connecting"])

\* faulty variant of after_get_connector: poll_device returns on "no connector"
\* without marking the device offline
after_get_connector_silent(S, r, c) ==
    IF c # 0 THEN call_connector(S, r, c)
    ELSE CASE r.kind = "test" -> Put(S, [r EXCEPT !.pc = "done", !.result = "fail"])
           [] OTHER -> finish(S, r)

\* what each caller does with the value get_connector returned (c = 0: None)
after_get_connector(S, r, c) ==
    IF c # 0 THEN call_connector(S, r, c)
    ELSE CASE r.kind = "poll" -> update_device_status(S, r, "offline")
           [] r.kind = "test" -> Put(S, [r EXCEPT !.pc = "done", !.result = "fail"])
           [] OTHER -> finish(S, r)

\* connector_cls(device_ip=device_cfg.get("ip"), ...);
\* self._connectors[device_id] = connector
instantiate(S, r) ==
    LET c == Min(ConnIds \ ConnRefs(S))
        S1 == [S EXCEPT !.connectors[r.dev] = c, !.is_connected[c] = FALSE,
                        !.target.conn[c] = S.target.loaded[r.dev]]
    IN  after_get_connector(S1, r, c)

\* faulty variant of resolve_credential: no registry check
resolve_credential_any_type(S, r) ==
    LET c == S.cfg[r.dev]
    IN  CASE c.cred \in {"name_ok", "name_missing"} ->
                Put(S, [r EXCEPT !.pc = "gc_vault"])
          [] c.cred \in {"id_ok", "id_missing", "id_dangling"} ->
                Put(S, [r EXCEPT !.pc = "gc_cred"])
          [] OTHER -> instantiate(S, r)

\* get_connector from the registry lookup to its next await or its return
resolve_credential(S, r) ==
    LET c == S.cfg[r.dev]
    IN  IF ~c.registered
        THEN after_get_connector(S, [r EXCEPT !.gc = "unregistered"], 0)
        ELSE CASE c.cred \in {"name_ok", "name_missing"} ->
                    Put(S, [r EXCEPT !.pc = "gc_vault"])
               [] c.cred \in {"id_ok", "id_missing", "id_dangling"} ->
                    Put(S, [r EXCEPT !.pc = "gc_cred"])
               [] OTHER -> instantiate(S, r)

\* get_connector from its first line to its first await or its return
get_connector(S, r) ==
    IF S.connectors[r.dev] # 0
    THEN after_get_connector(S, r, S.connectors[r.dev])
    ELSE IF S.devices[r.dev] = "absent"
         THEN Put(S, [r EXCEPT !.pc = "gc_load"])
         ELSE resolve_credential(S, r)

\* load_devices: self._devices = {d['id']: d for d in devices}, or, when
\* list_devices raised, only a log line (the rows are read and the map is
\* replaced in one step, when the await returns)
load_devices(S, ok) ==
    IF ok THEN [S EXCEPT !.devices = S.db_status, !.target.loaded = S.target.store]
    ELSE S

\* --------------------------------------------- entering a gated coroutine
\* the body of "async with self._semaphore", from the moment the permit is
\* held; poll_device returns at once for a device that is not loaded
gated(S, r) ==
    IF r.kind = "poll" /\ S.devices[r.dev] = "absent"
    THEN finish(S, [r EXCEPT !.result = "unknown"])
    ELSE get_connector(S, r)

\* faulty variant of enter: the body runs without "async with self._semaphore"
enter_ungated(S, r) ==
    IF r.kind \notin Gated THEN get_connector(S, r) ELSE gated(S, r)

\* first run of a coroutine: a gated one evaluates self._semaphore and takes
\* a permit if one is free, else it waits on that semaphore object
enter(S, r) ==
    LET s == S.semaphore
    IN  IF r.kind \notin Gated THEN get_connector(S, r)
        ELSE IF S.sem_value[s] > 0
             THEN gated([S EXCEPT !.sem_value[s] = @ - 1], [r EXCEPT !.sem = s])
             ELSE Put(S, [r EXCEPT !.sem = s, !.pc = "acquire"])

\* ------------------------------------------------------------- actions
\* a direct call of poll_device, refresh_device_data, run_device_audit or
\* test_device (API route, MCP tool, scheduler job) on a device of the store
Call(kind, d) ==
    /\ ops < MaxOps
    /\ Runs(enter([Cur EXCEPT !.ops = @ + 1], NewTask(kind, d, 0)))

Stored == {d \in DeviceIds : db_status[d] # "absent"}

CallPollDevice == \E d \in Stored : Call("poll", d)
CallRefreshDeviceData == \E d \in Stored : Call("refresh", d)
CallRunDeviceAudit == \E d \in Stored : Call("audit", d)
CallTestDevice == \E d \in Stored : Call("test", d)

\* a waiter of the semaphore is woken with a permit
AcquireOf(r) ==
    /\ r.pc = "acquire"
    /\ sem_value[r.sem] > 0
    /\ Runs(gated([Take(Cur, r) EXCEPT !.sem_value[r.sem] = @ - 1], r))

Acquire == \E r \in TaskSet : AcquireOf(r)

\* get_connector: await self.load_devices() returns
LoadDone ==
    \E r \in TaskSet :
        /\ r.pc = "gc_load"
        /\ \E ok \in BOOLEAN :
              LET S == load_devices(Take(Cur, r), ok)
              IN  Runs(
                    IF S.devices[r.dev] = "absent"
                    THEN after_get_connector(S, [r EXCEPT !.gc = "not_found"], 0)
                    ELSE resolve_credential(S, r))

\* get_connector: await crud.get_credential(self.db, cred_id) returns
CredLookupDone ==
    \E r \in TaskSet :
        /\ r.pc = "gc_cred"
        /\ Runs(
             IF cfg[r.dev].cred \in {"id_ok", "id_missing"}
             THEN Put(Take(Cur, r), [r EXCEPT !.pc = "gc_vault"])
             ELSE instantiate(Take(Cur, r), r))

\* get_connector: await self.vault.get_credential(cred_name) returns
VaultDoneOf(r) ==
    /\ r.pc = "gc_vault"
    /\ Runs(
         IF cfg[r.dev].cred \in {"name_ok", "id_ok"}
         THEN instantiate(Take(Cur, r), r)
         ELSE after_get_connector(Take(Cur, r),
                                  [r EXCEPT !.gc = "not_in_vault"], 0))

VaultDone == \E r \in TaskSet : VaultDoneOf(r)

\* the keys of the dict poll_device builds and of the one refresh_device_data
\* builds
PollKeys == {"system_info", "interfaces", "last_poll"}
RefreshKeys ==
    {"system_info", "interfaces", "arp_table", "mac_table", "routes", "last_refresh"}

\* the retrieval calls of one operation: poll_device makes get_system_info and
\* get_interfaces, refresh_device_data adds get_arp_table, get_mac_table, get_routes
Retrievals(kind) == IF kind = "poll" THEN 2 ELSE 5

\* faulty variant of poll_status: no downgrade for an empty interface list
poll_status_always_online(ifaces) == "online"

\* poll_device: status = "online"; if not interfaces: status = "warning"
poll_status(ifaces) == IF ifaces = "empty" THEN "warning" ELSE "online"

\* the three ways connect() can end: True, False, or an exception
\* faulty variant of after_connect: refresh_device_data, like poll_device,
\* marks the device offline when connect() returns false or raises
after_connect_marking_offline(S, r, outcome) ==
    LET S1 == IF outcome = "raised" THEN S
              ELSE [S EXCEPT !.is_connected[r.conn] = (outcome = "true")]
        r1 == [r EXCEPT !.connected = outcome, !.exc = (outcome = "raised")]
    IN  IF outcome = "true"
        THEN Put(S1, [r1 EXCEPT
                        !.pc = IF r.kind = "audit" THEN "run_audit" ELSE "retrieve",
                        !.k = IF r.kind = "audit" THEN 0 ELSE 1])
        ELSE IF r.kind \in Gated
             THEN update_device_status(S1, r1, "offline")
             ELSE finally(S1, r1)

ConnectOutcomes == {"true", "false", "raised"}

\* await connector.connect() returns in poll_device, refresh_device_data or
\* run_device_audit (connect() leaves _is_connected equal to what it returns)
after_connect(S, r, outcome) ==
    LET S1 == IF outcome = "raised" THEN S
              ELSE [S EXCEPT !.is_connected[r.conn] = (outcome = "true")]
        r1 == [r EXCEPT !.connected = outcome, !.exc = (outcome = "raised")]
    IN  IF outcome = "true"
        THEN Put(S1, [r1 EXCEPT
                        !.pc = IF r.kind = "audit" THEN "run_audit" ELSE "retrieve",
                        !.k = IF r.kind = "audit" THEN 0 ELSE 1])
        ELSE IF r.kind = "poll"
             THEN update_device_status(S1, r1, "offline")
             ELSE finally(S1, r1)

ConnectDoneOf(r) ==
    /\ r.pc = "connecting"
    /\ \E outcome \in ConnectOutcomes :
          Runs(after_connect(Take(Cur, r), r, outcome))

ConnectDone == \E r \in TaskSet : ConnectDoneOf(r)

\* faulty variant of after_retrieve: an exception of a retrieval call is not
\* caught by the except clause, so no status is written for it
after_retrieve_unhandled(S, r, outcome) ==
    LET r1 == IF r.k = 2 /\ outcome # "raised" THEN [r EXCEPT !.ifaces = outcome] ELSE r
    IN  IF outcome = "raised"
        THEN finally(S, [r EXCEPT !.exc = TRUE])
        ELSE IF r.k < Retrievals(r.kind)
             THEN Put(S, [r1 EXCEPT !.k = @ + 1])
             ELSE IF r.kind = "poll"
                  THEN update_device_status([S EXCEPT !.cache[r.dev] = PollKeys],
                                            r1, poll_status(r1.ifaces))
                  ELSE update_device_status([S EXCEPT !.cache[r.dev] = RefreshKeys],
                                            r1, "online")

\* faulty variant of after_retrieve: the new keys are merged into the entry
\* the cache already holds (dict.update) instead of replacing it
after_retrieve_merging(S, r, outcome) ==
    LET r1 == IF r.k = 2 /\ outcome # "raised" THEN [r EXCEPT !.ifaces = outcome] ELSE r
    IN  IF outcome = "raised"
        THEN IF r.kind = "poll"
             THEN update_device_status(S, [r EXCEPT !.exc = TRUE], "offline")
             ELSE finally(S, [r EXCEPT !.exc = TRUE])
        ELSE IF r.k < Retrievals(r.kind)
             THEN Put(S, [r1 EXCEPT !.k = @ + 1])
             ELSE IF r.kind = "poll"
                  THEN update_device_status([S EXCEPT !.cache[r.dev] = @ \cup PollKeys],
                                            r1, poll_status(r1.ifaces))
                  ELSE update_device_status([S EXCEPT !.cache[r.dev] = @ \cup RefreshKeys],
                                            r1, "online")

\* faulty variant of after_retrieve: each retrieved part is put into the
\* cached entry as soon as its call returns
after_retrieve_incremental(S, r, outcome) ==
    LET r1 == IF r.k = 2 /\ outcome # "raised" THEN [r EXCEPT !.ifaces = outcome] ELSE r
        key == <<"system_info", "interfaces", "arp_table", "mac_table", "routes">>[r.k]
        S1 == [S EXCEPT !.cache[r.dev] = @ \cup {key}]
    IN  IF outcome = "raised"
        THEN IF r.kind = "poll"
             THEN update_device_status(S, [r EXCEPT !.exc = TRUE], "offline")
             ELSE finally(S, [r EXCEPT !.exc = TRUE])
        ELSE IF r.k < Retrievals(r.kind)
             THEN Put(S1, [r1 EXCEPT !.k = @ + 1])
             ELSE IF r.kind = "poll"
                  THEN update_device_status([S EXCEPT !.cache[r.dev] = PollKeys],
                                            r1, poll_status(r1.ifaces))
                  ELSE update_device_status([S EXCEPT !.cache[r.dev] = RefreshKeys],
                                            r1, "online")

\* the k-th retrieval call returns data (for get_interfaces: an empty or a
\* non-empty list) or raises
after_retrieve(S, r, outcome) ==
    LET r1 == IF r.k = 2 /\ outcome # "raised" THEN [r EXCEPT !.ifaces = outcome] ELSE r
    IN  IF outcome = "raised"
        THEN IF r.kind = "poll"
             THEN update_device_status(S, [r EXCEPT !.exc = TRUE], "offline")
             ELSE finally(S, [r EXCEPT !.exc = TRUE])
        ELSE IF r.k < Retrievals(r.kind)
             THEN Put(S, [r1 EXCEPT !.k = @ + 1])
             ELSE IF r.kind = "poll"
                  THEN update_device_status([S EXCEPT !.cache[r.dev] = PollKeys],
                                            r1, poll_status(r1.ifaces))
                  ELSE update_device_status([S EXCEPT !.cache[r.dev] = RefreshKeys],
                                            r1, "online")

RetrieveDoneOf(r) ==
    /\ r.pc = "retrieve"
    /\ \E outcome \in (IF r.k = 2 THEN {"empty", "some", "raised"}
                                  ELSE {"data", "raised"}) :
          Runs(after_retrieve(Take(Cur, r), r, outcome))

RetrieveDone == \E r \in TaskSet : RetrieveDoneOf(r)

\* _update_device_status: await crud.update_device(...) returns or raises
\* (the exception is caught and logged); the caller then runs to its return
after_update_device(S, r, ok) ==
    LET S1 == IF ok /\ S.db_status[r.dev] # "absent"
              THEN [S EXCEPT !.db_status[r.dev] = r.status]
              ELSE S
    IN  finally(S1, r)

UpdateDeviceDoneOf(r) ==
    /\ r.pc = "db_write"
    /\ \E ok \in BOOLEAN : Runs(after_update_device(Take(Cur, r), r, ok))

UpdateDeviceDone == \E r \in TaskSet : UpdateDeviceDoneOf(r)

\* the results run_audit can return, as the statuses of their checks
CheckStatuses == {"pass", "warning", "fail"}
AuditResults == UNION {[1..n -> CheckStatuses] : n \in 0..MaxChecks}

\* the number of checks of the given status (fail_count, warning_count)
RECURSIVE count(_, _)
count(checks, status) ==
    IF checks = <<>> THEN 0
    ELSE (IF Head(checks) = status THEN 1 ELSE 0) + count(Tail(checks), status)

\* faulty variant of audit_status: a warning outranks a failure
audit_status_warning_first(checks) ==
    IF count(checks, "warning") > 0 THEN "warning"
    ELSE IF count(checks, "fail") > 0 THEN "error" ELSE "success"

\* run_device_audit: status from fail_count and warning_count
audit_status(checks) ==
    IF count(checks, "fail") > 0 THEN "error"
    ELSE IF count(checks, "warning") > 0 THEN "warning" ELSE "success"

\* severity="critical" if check.status == "fail" else "warning"
severity(status) == IF status = "fail" THEN "critical" ELSE "warning"

\* the alert loop from just after check i: await trigger_alert for the next
\* check that is fail or warning, or the end of the loop and the return
next_alert(S, r, i) ==
    LET J == {j \in (i + 1)..Len(r.checks) : r.checks[j] \in {"fail", "warning"}}
    IN  IF J = {} THEN finally(S, r)
        ELSE Put(S, [r EXCEPT !.pc = "alert", !.k = Min(J)])

\* run_device_audit: await connector.run_audit() returns a result or raises
RunAuditDone ==
    \E r \in TaskSet :
        /\ r.pc = "run_audit"
        /\ \/ \E checks \in AuditResults :
                 Runs(Put(Take(Cur, r), [r EXCEPT !.pc = "audit_log",
                                                  !.checks = checks,
                                                  !.result = audit_status(checks)]))
           \/ Runs(finally(Take(Cur, r), [r EXCEPT !.exc = TRUE]))

\* run_device_audit: await crud.create_audit_log(...) returns or raises
AuditLogDone ==
    \E r \in TaskSet :
        /\ r.pc = "audit_log"
        /\ \E ok \in BOOLEAN :
              Runs(
                IF ~ok
                THEN finally(Take(Cur, r), [r EXCEPT !.exc = TRUE, !.result = "none",
                                                     !.io = "failed"])
                ELSE IF r.result \in {"error", "warning"}
                     THEN next_alert(Take(Cur, r), [r EXCEPT !.log = r.result], 0)
                     ELSE finally(Take(Cur, r), [r EXCEPT !.log = r.result]))

\* run_device_audit: await crud.trigger_alert(...) returns or raises
AlertDone ==
    \E r \in TaskSet :
        /\ r.pc = "alert"
        /\ \E ok \in BOOLEAN :
              Runs(
                IF ok
                THEN next_alert(Take(Cur, r),
                                [r EXCEPT !.alerts = Append(@, severity(r.checks[r.k]))],
                                r.k)
                ELSE finally(Take(Cur, r), [r EXCEPT !.exc = TRUE, !.result = "none",
                                                     !.io = "failed"]))

\* test_device: await connector.test_connection() returns or raises
TestDone ==
    \E r \in TaskSet :
        /\ r.pc = "testing"
        /\ \E outcome \in {"ok", "fail", "raised"} :
              Runs(
                Put(Take(Cur, r), [r EXCEPT !.pc = "done",
                                      !.exc = (outcome = "raised"),
                                      !.result = IF outcome = "ok" THEN "ok" ELSE "fail"]))

\* the caller of a direct call takes the result
Return ==
    \E r \in TaskSet :
        /\ r.pc = "done"
        /\ r.parent = 0
        /\ Becomes(Collect(Take(Cur, r)))

\* ------------------------------------------------------------- poll_all
\* poll_all: if max_concurrent != self._semaphore._value: new Semaphore
replace_semaphore(S, n) ==
    IF n # S.sem_value[S.semaphore]
    THEN LET s == Min(SemIds \ SemRefs(S))
         IN  [S EXCEPT !.semaphore = s, !.sem_value[s] = n, !.sem_cap[s] = n]
    ELSE S

\* poll_all(n) up to "await self.load_devices()"
PollAllStart ==
    /\ pa.pc = "idle"
    /\ ops < MaxOps
    /\ \E n \in Limits :
          Runs([replace_semaphore(Cur, n) EXCEPT
                              !.pa = [pc |-> "loading", n |-> n],
                              !.ops = @ + 1])

\* one poll_device coroutine per loaded device is handed to asyncio.gather,
\* which wraps each in a task that first runs later
spawn_polls(S) ==
    [S EXCEPT !.task = @ (+) SetToBag({NewTask("poll", d, 1) :
                                        d \in {e \in DeviceIds : S.devices[e] # "absent"}})]

\* poll_all: load_devices returns, the tasks are made
PollAllLoaded ==
    /\ pa.pc = "loading"
    /\ \E ok \in BOOLEAN :
          Runs([spawn_polls(load_devices(Cur, ok)) EXCEPT !.pa.pc = "gather"])

\* a task made by gather runs for the first time
ChildStartOf(r) ==
    /\ r.pc = "spawned"
    /\ Runs(enter(Take(Cur, r), r))

ChildStart == \E r \in TaskSet : ChildStartOf(r)

Children == {r \in TaskSet : r.parent = 1}

\* gather(*tasks, return_exceptions=True) returns when every task is done
PollAllDone ==
    /\ pa.pc = "gather"
    /\ \A r \in Children : r.pc = "done"
    /\ Runs([Cur EXCEPT
            !.task = [x \in {y \in TaskSet : y.parent # 1} |-> task[x]],
            !.pa = [pc |-> "idle", n |-> 0]])

\* ---------------------------------------------------- run_network_audit
\* faulty variant of online_ids: every loaded device is refreshed
online_ids_all(S) == {d \in DeviceIds : S.devices[d] # "absent"}

\* online_device_ids = [did for did, d in devices.items() if status == "online"]
online_ids(S) == {d \in DeviceIds : S.devices[d] = "online"}

\* run_network_audit up to "await self.device_manager.load_devices()"
NetworkAuditStart ==
    /\ na.pc = "idle"
    /\ Runs([Cur EXCEPT !.na.pc = "loading"])

\* load_devices returns; one refresh_device_data coroutine per online device
\* is handed to asyncio.gather
NetworkAuditLoaded ==
    /\ na.pc = "loading"
    /\ \E ok \in BOOLEAN :
          LET S == load_devices(Cur, ok)
              ids == online_ids(S)
          IN  Runs([S EXCEPT
                      !.task = @ (+) SetToBag({NewTask("refresh", d, 2) : d \in ids}),
                      !.na.pc = "gather",
                      !.na.online = ids])

NetChildren == {r \in TaskSet : r.parent = 2}

\* all_data = {did: _cache.get(did) for did in online_device_ids
\*             if _cache.get(did)}
gathered(S) == [d \in {e \in S.na.online : S.cache[e] # {}} |-> S.cache[d]]

\* the checks the cross-device analysis can yield: fail (duplicate IP) and
\* warning (duplicate MAC, orphan) checks, none when no online device has a
\* cache entry with an ARP or a MAC table
NetworkResults(S) ==
    IF \E d \in S.na.online : S.cache[d] \cap {"arp_table", "mac_table"} # {}
    THEN UNION {[1..n -> {"fail", "warning"}] : n \in 0..MaxChecks}
    ELSE {<<>>}

\* faulty variant of network_status: a warning outranks a fail
network_status_warning_first(checks) ==
    IF \E i \in 1..Len(checks) : checks[i] = "warning" THEN "warning"
    ELSE IF \E i \in 1..Len(checks) : checks[i] = "fail" THEN "error"
    ELSE "success"

\* status = "error" if any fail, "warning" if any warning, else "success"
network_status(checks) ==
    IF \E i \in 1..Len(checks) : checks[i] = "fail" THEN "error"
    ELSE IF \E i \in 1..Len(checks) : checks[i] = "warning" THEN "warning"
    ELSE "success"

\* gather returns (exceptions of the refreshes are returned, not raised); the
\* checks are computed, up to "await crud.create_audit_log(...)"
NetworkAuditGathered ==
    /\ na.pc = "gather"
    /\ \A r \in NetChildren : r.pc = "done"
    /\ \E checks \in NetworkResults(Cur) :
          Runs([Cur EXCEPT !.na.pc = "log", !.na.checks = checks,
                           !.na.all_data = gathered(Cur)])

\* the alert loop from just after check i: await trigger_alert for the next
\* check that is fail or warning, or the return of the result
network_next_alert(q, i) ==
    LET J == {j \in (i + 1)..Len(q.checks) : q.checks[j] \in {"fail", "warning"}}
    IN  IF J = {} THEN [q EXCEPT !.pc = "done", !.k = 0]
        ELSE [q EXCEPT !.pc = "alert", !.k = Min(J)]

\* create_audit_log(device_id=0, ...) returns, or raises out of the audit
NetworkLogDone ==
    /\ na.pc = "log"
    /\ \E ok \in BOOLEAN :
          Runs([Cur EXCEPT !.na =
                  IF ok
                  THEN network_next_alert(
                         [na EXCEPT !.logs = Append(@, [device_id |-> GlobalDeviceId,
                                                       status |-> network_status(na.checks)])],
                         0)
                  ELSE [na EXCEPT !.pc = "raised"]])

\* trigger_alert(device_id=0, ...) returns, or raises out of the audit
NetworkAlertDone ==
    /\ na.pc = "alert"
    /\ \E ok \in BOOLEAN :
          Runs([Cur EXCEPT !.na =
                  IF ok
                  THEN network_next_alert(
                         [na EXCEPT !.alerts = Append(@, [device_id |-> GlobalDeviceId,
                                                         severity |-> severity(na.checks[na.k])])],
                         na.k)
                  ELSE [na EXCEPT !.pc = "raised"]])

\* ------------------------------------------------ _check_duplicate_ips
\* IP addresses of hosts, and their hardware addresses as octets
Ips == {"10.0.0.5", "10.0.0.6"}
HwAddrs == {<<0, 17, 34, 51, 68, 85>>, <<0, 170, 187, 204, 221, 238>>}

\* what a device knows of an IP: a hardware address, nothing, or (a REST item
\* without a "mac" field) an entry with no address
NoEntry == [has |-> "no_entry", hw |-> <<>>]
NoMac == [has |-> "no_mac", hw |-> <<>>]
Knows(hw) == [has |-> "mac", hw |-> hw]

\* the connectors that fill an ARP table
ArpKinds == {"snmp", "cisco", "rest"}

\* strings are sequences of characters
LowerHex == <<"0", "1", "2", "3", "4", "5", "6", "7", "8", "9",
              "a", "b", "c", "d", "e", "f">>
UpperHex == <<"0", "1", "2", "3", "4", "5", "6", "7", "8", "9",
              "A", "B", "C", "D", "E", "F">>

\* f"{b:02x}"
hex(b) == <<LowerHex[(b \div 16) + 1], LowerHex[(b % 16) + 1]>>

\* sep.join(parts)
RECURSIVE join(_, _)
join(parts, sep) ==
    IF parts = <<>> THEN <<>>
    ELSE IF Len(parts) = 1 THEN parts[1]
    ELSE parts[1] \o sep \o join(Tail(parts), sep)

\* str.upper()
upper(s) ==
    [i \in 1..Len(s) |->
        IF \E n \in 1..16 : LowerHex[n] = s[i]
        THEN UpperHex[CHOOSE n \in 1..16 : LowerHex[n] = s[i]]
        ELSE s[i]]

\* SNMPConnector.get_arp_table: ":".join(f"{b:02x}" for b in asOctets())
snmp_mac(octets) == join([i \in 1..Len(octets) |-> hex(octets[i])], <<":">>)

\* the "Hardware Addr" column of "show ip arp": 0011.2233.4455
cisco_print(octets) ==
    join([i \in 1..(Len(octets) \div 2) |-> hex(octets[2 * i - 1]) \o hex(octets[2 * i])],
         <<".">>)

NotDot(c) == c # "."

\* parse_show_ip_arp: the dots removed, the twelve digits joined in pairs
\* with ":", then upper()
cisco_mac(printed) ==
    LET bare == SelectSeq(printed, NotDot)
    IN  upper(join([i \in 1..6 |-> SubSeq(bare, 2 * i - 1, 2 * i)], <<":">>))

\* GenericHTTPProfile.parse_arp_table: mac=item.get("mac"), the string the
\* device sent (hex digits in either case) or None (the empty sequence)
rest_macs(known) ==
    IF known = NoMac THEN {<<>>}
    ELSE {snmp_mac(known.hw), upper(snmp_mac(known.hw))}

\* the strings a connector of the kind can store as the mac of an entry
macs_of(kind, known) ==
    CASE kind = "snmp" -> {snmp_mac(known.hw)}
      [] kind = "cisco" -> {cisco_mac(cisco_print(known.hw))}
      [] OTHER -> rest_macs(known)

\* what the manager can hold of a device with a connector of the kind: the
\* device is offline, or online with the cache entry of a light poll, or
\* refreshed, its ARP table made from what it knows of each IP
SeenBy(kind) ==
    {[state |-> s, hosts |-> [ip \in Ips |-> NoEntry]] : s \in {"offline", "polled"}}
    \cup {[state |-> "refreshed", hosts |-> h] :
            h \in [Ips -> {Knows(hw) : hw \in HwAddrs}
                          \cup (IF kind = "rest" THEN {NoEntry, NoMac} ELSE {NoEntry})]}

\* the devices in all_data: online, with a cache entry
Audited(q) == {d \in DeviceIds : q.seen[d].state # "offline"}

\* the devices whose cache entry is of a full refresh
WithArp(q) == {d \in Audited(q) : q.seen[d].state = "refreshed"}

\* the ARP tables get_arp_table can return for what the device knows
ArpTables(q, d) ==
    LET hosts == q.seen[d].hosts
        known == {ip \in Ips : hosts[ip] # NoEntry}
        choices == [known -> UNION {macs_of(q.kind[d], hosts[ip]) : ip \in known}]
    IN  {{[ip |-> ip, mac |-> c[ip]] : ip \in known} :
            c \in {x \in choices :
                      \A ip \in known : x[ip] \in macs_of(q.kind[d], hosts[ip])}}

\* ports and VLANs of the switches
Ports == {"Gi0/1", "Gi0/2"}
Vlans == {1, 2}
\* most entries in the MAC address table of one device
MaxSightings == 2

\* the forwarding tables a device with a connector of the kind can report:
\* dot1dTpFdbTable has one row per MAC and no VLAN (vlan=1), "show mac
\* address-table" one line per VLAN, MAC and port; the REST connector and the
\* SSH connector of a MikroTik report none
FdbOf(kind) ==
    CASE kind = "snmp" ->
           {t \in SUBSET [hw : HwAddrs, port : Ports, vlan : {1}] :
               \A x \in t : \A y \in t : x.hw = y.hw => x = y}
      [] kind = "cisco" ->
           {t \in SUBSET [hw : HwAddrs, port : Ports, vlan : Vlans] :
               Cardinality(t) <= MaxSightings}
      [] OTHER -> {{}}

\* get_mac_table: the entries of the forwarding table with the MAC as the
\* connector writes it (SNMPConnector from the octets in the OID, lowercase;
\* parse_show_mac_address_table dots removed, pairs joined, upper())
MacTable(q, d) ==
    IF q.fdb = <<>> \/ q.kind[d] \notin {"snmp", "cisco"} THEN {}
    ELSE {[mac |-> IF q.kind[d] = "snmp" THEN snmp_mac(e.hw)
                   ELSE cisco_mac(cisco_print(e.hw)),
           port |-> e.port, vlan |-> e.vlan] : e \in q.fdb[d]}

\* the cache entries all_data can hold: of a light poll (no arp_table and no
\* mac_table key) or of a full refresh
AllData(q) ==
    {a \in [Audited(q) -> UNION {{[keys |-> PollKeys, arp_table |-> {}, mac_table |-> {}]},
                                  UNION {{[keys |-> RefreshKeys, arp_table |-> t,
                                           mac_table |-> MacTable(q, d)] :
                                            t \in ArpTables(q, d)} : d \in WithArp(q)}}] :
        \A d \in Audited(q) :
            IF d \in WithArp(q)
            THEN /\ a[d].keys = RefreshKeys
                 /\ a[d].arp_table \in ArpTables(q, d)
                 /\ a[d].mac_table = MacTable(q, d)
            ELSE a[d].keys = PollKeys}

\* data.get("arp_table", [])
arp_table(data) == IF "arp_table" \in data.keys THEN data.arp_table ELSE {}

\* _check_duplicate_ips: ip_map[ip] is the set of the macs of the entries
\* with that ip (entries without ip or mac are skipped); the result maps each
\* ip with more than one mac to its macs
check_duplicate_ips(all_data) ==
    LET entries == UNION {arp_table(all_data[d]) : d \in DOMAIN all_data}
        valid == {e \in entries : e.ip # "" /\ e.mac # <<>>}
        ip_map == [ip \in {e.ip : e \in valid} |-> {e.mac : e \in {x \in valid : x.ip = ip}}]
    IN  [ip \in {i \in DOMAIN ip_map : Cardinality(ip_map[i]) > 1} |-> ip_map[ip]]

\* one AuditCheck per item of dup_ips
duplicate_ip_checks(dup_ips) ==
    {[name |-> "Duplicate IP Detection", status |-> "fail",
      ip |-> ip, macs |-> dup_ips[ip]] : ip \in DOMAIN dup_ips}

\* the refreshes of the online devices have filled the cache; all_data is read
GatherArpTables ==
    /\ net.pc = "idle"
    /\ net.seen # <<>>
    /\ \E a \in AllData(net) :
          Runs([Cur EXCEPT !.net.pc = "gathered", !.net.all_data = a])

\* dup_ips = self._check_duplicate_ips(all_data) and the loop over its items
CheckDuplicateIps ==
    /\ net.pc = "gathered"
    /\ LET dup_ips == check_duplicate_ips(net.all_data)
       IN  Runs([Cur EXCEPT !.net.pc = "checked",
                            !.net.dup_ips = dup_ips,
                            !.net.checks = duplicate_ip_checks(dup_ips)])

\* data.get("mac_table", [])
mac_table(data) == IF "mac_table" \in data.keys THEN data.mac_table ELSE {}

\* f"device_{did}:{port}"
location(did, port) == "device_" \o ToString(did) \o ":" \o port

\* _check_duplicate_macs: mac_map[mac] is the set of the locations of the
\* entries with that mac (entries without mac or port are skipped); the
\* result maps each mac with more than one location to its locations
check_duplicate_macs(all_data) ==
    LET sightings == UNION {{[mac |-> e.mac, at |-> location(d, e.port)] :
                               e \in {x \in mac_table(all_data[d]) :
                                         x.mac # <<>> /\ x.port # ""}} :
                            d \in DOMAIN all_data}
        mac_map == [mac \in {s.mac : s \in sightings} |->
                       {s.at : s \in {x \in sightings : x.mac = mac}}]
    IN  [mac \in {m \in DOMAIN mac_map : Cardinality(mac_map[m]) > 1} |-> mac_map[mac]]

\* one AuditCheck per item of dup_macs
duplicate_mac_checks(dup_macs) ==
    {[name |-> "Duplicate MAC Detection", status |-> "warning",
      mac |-> mac, ports |-> dup_macs[mac]] : mac \in DOMAIN dup_macs}

\* dup_macs = self._check_duplicate_macs(all_data) and the loop over its items
CheckDuplicateMacs ==
    /\ net.pc = "gathered"
    /\ LET dup_macs == check_duplicate_macs(net.all_data)
       IN  Runs([Cur EXCEPT !.net.pc = "checked_macs",
                            !.net.dup_macs = dup_macs,
                            !.net.checks = duplicate_mac_checks(dup_macs)])

\* the addresses a managed device can be configured with: one that hosts in
\* the ARP tables have, and one that no ARP table holds
InventoryIps == {"10.0.0.1", "10.0.0.5"}

\* a row of the devices table as load_devices keeps it: the column is
\* ip_address, and there is no "ip" key (get returns None, the empty string)
DeviceRow(address) == [ip |-> "", ip_address |-> address]

\* faulty variant of check_orphan_devices: only the audited devices count as
\* managed
check_orphan_devices_audited_only(all_data, inventory) ==
    LET known_ips == {inventory[d].ip_address : d \in DOMAIN all_data}
        arp_ips == {e.ip : e \in UNION {arp_table(all_data[d]) : d \in DOMAIN all_data}}
    IN  arp_ips \ known_ips

\* _check_orphan_devices: the ips of the ARP entries of all_data that are
\* neither the "ip" nor the "ip_address" of a device of the inventory
check_orphan_devices(all_data, inventory) ==
    LET known_ips == {inventory[d].ip : d \in {x \in DOMAIN inventory : inventory[x].ip # ""}}
                     \cup {inventory[d].ip_address :
                              d \in {x \in DOMAIN inventory : inventory[x].ip_address # ""}}
        arp_ips == {e.ip : e \in {x \in UNION {arp_table(all_data[d]) : d \in DOMAIN all_data} :
                                     x.ip # ""}}
    IN  arp_ips \ known_ips

\* one AuditCheck per orphan
orphan_checks(orphans) ==
    {[name |-> "Orphan Device Detection", status |-> "warning", ip |-> ip] :
        ip \in orphans}

\* orphans = self._check_orphan_devices(all_data, devices) and the loop over it
CheckOrphanDevices ==
    /\ net.pc = "gathered"
    /\ LET orphans == check_orphan_devices(net.all_data, net.inventory)
       IN  Runs([Cur EXCEPT !.net.pc = "checked_orphans",
                            !.net.orphans = orphans,
                            !.net.checks = orphan_checks(orphans)])

\* ----------------------------------------------------------- SSHConnector
\* the substrings _detect_device_type looks for; the output of a command is
\* modelled by the set of those it contains
Signatures == {"RouterOS", "MikroTik", "Cisco", "exec"}

\* the device types of the credentials
DeviceTypes == {"auto", "mikrotik", "cisco"}

\* the capability calls
Capabilities ==
    {"get_system_info", "get_interfaces", "get_arp_table", "get_mac_table", "get_routes"}

\* the capability calls that run a command for the device type
HasCommand(device_type, method) ==
    \/ device_type = "cisco"
    \/ device_type = "mikrotik" /\ method # "get_mac_table"

\* what a capability call returns without running a command: get_system_info
\* the map {"error": "Unsupported device type"}, the others an empty list
unsupported(method) ==
    IF method = "get_system_info" THEN "error_map" ELSE "empty"

\* _detect_device_type on the output of "?": the type, or "auto" when
\* "show version" has to be tried
detect_probe(output) ==
    IF "RouterOS" \in output \/ "MikroTik" \in output THEN "mikrotik"
    ELSE IF "Cisco" \in output \/ "exec" \in output THEN "cisco"
    ELSE "auto"

\* _detect_device_type on the output of "show version"
detect_version(output) == IF "Cisco" \in output THEN "cisco" ELSE "unknown"

\* connect() is called, up to "await loop.run_in_executor(... client.connect)"
SshConnect ==
    /\ ssh.pc = "idle"
    /\ Becomes([Cur EXCEPT !.ssh.pc = "connecting", !.ssh.method = "connect",
                           !.ssh.result = "none"])

\* client.connect returns or raises; when the type is "auto" the detection
\* starts with _execute_command("?")
SshConnectDone ==
    /\ ssh.pc = "connecting"
    /\ \E ok \in BOOLEAN :
          Becomes([Cur EXCEPT !.ssh =
                     IF ~ok
                     THEN [ssh EXCEPT !.pc = "idle", !.is_connected = FALSE,
                                      !.result = "false"]
                     ELSE IF ssh.device_type = "auto"
                          THEN [ssh EXCEPT !.pc = "probing", !.is_connected = TRUE]
                          ELSE [ssh EXCEPT !.pc = "idle", !.is_connected = TRUE,
                                           !.result = "true"]])

\* the "?" command returns its output or raises (bare except: "unknown")
SshProbeDone ==
    /\ ssh.pc = "probing"
    /\ \/ \E output \in SUBSET Signatures :
             LET t == detect_probe(output)
             IN  Becomes([Cur EXCEPT !.ssh =
                            IF t = "auto"
                            THEN [ssh EXCEPT !.pc = "versioning", !.probed = "output",
                                             !.probe = output]
                            ELSE [ssh EXCEPT !.pc = "idle", !.probed = "output",
                                             !.probe = output, !.device_type = t,
                                             !.result = "true"]])
       \/ Becomes([Cur EXCEPT !.ssh = [ssh EXCEPT !.pc = "idle", !.probed = "raised",
                                                  !.device_type = "unknown",
                                                  !.result = "true"]])

\* the "show version" command returns its output or raises
SshVersionDone ==
    /\ ssh.pc = "versioning"
    /\ \/ \E output \in SUBSET {"Cisco"} :
             Becomes([Cur EXCEPT !.ssh = [ssh EXCEPT !.pc = "idle", !.versioned = "output",
                                                    !.version = output,
                                                    !.device_type = detect_version(output),
                                                    !.result = "true"]])
       \/ Becomes([Cur EXCEPT !.ssh = [ssh EXCEPT !.pc = "idle", !.versioned = "raised",
                                                  !.device_type = "unknown",
                                                  !.result = "true"]])

\* disconnect(): if self.client: close and clear _is_connected
SshDisconnect ==
    /\ ssh.pc = "idle"
    /\ ssh.is_connected
    /\ Becomes([Cur EXCEPT !.ssh.is_connected = FALSE, !.ssh.method = "disconnect",
                           !.ssh.result = "none"])

\* a capability call: it returns at once when the type has no command for
\* it, else it runs up to the await in _execute_command, which connects
\* first if the connector is not connected
SshCall ==
    /\ ssh.pc = "idle"
    /\ \E method \in Capabilities :
          Becomes([Cur EXCEPT !.ssh =
                     IF ~HasCommand(ssh.device_type, method)
                     THEN [ssh EXCEPT !.method = method, !.result = unsupported(method)]
                     ELSE [ssh EXCEPT !.method = method, !.result = "none",
                                      !.pc = IF ssh.is_connected THEN "running"
                                             ELSE "reconnecting"]])

\* the connect() of _execute_command returns: the command runs, or
\* ConnectionError("Not connected to device") leaves the capability call
SshReconnectDone ==
    /\ ssh.pc = "reconnecting"
    /\ \E ok \in BOOLEAN :
          Becomes([Cur EXCEPT !.ssh =
                     IF ok THEN [ssh EXCEPT !.pc = "running", !.is_connected = TRUE]
                     ELSE [ssh EXCEPT !.pc = "idle", !.result = "raised"]])

\* exec_command and stdout.read return the output, which the parser turns
\* into entries or into none, or they raise (nothing in the capability call
\* catches it)
SshCommandDone ==
    /\ ssh.pc = "running"
    /\ \E outcome \in {"data", "empty", "raised"} :
          Becomes([Cur EXCEPT !.ssh = [ssh EXCEPT !.pc = "idle", !.result = outcome]])

\* ---------------------------------------------------------- SNMPConnector
\* the versions and community strings of the credentials
SnmpVersions == {Absent, "v2c", "v3"}
Communities == {Absent, "public", "private", "n3tv4ult"}

\* connect() is called: the transport target is created first when there is
\* none, else test_connection runs up to its GET of sysDescr
SnmpConnect ==
    /\ snmp.pc = "idle"
    /\ Becomes([Cur EXCEPT !.snmp.pc = IF snmp.transport_target THEN "testing"
                                       ELSE "creating"])

\* UdpTransportTarget(...).create() returns, or raises (connect returns False)
SnmpTransportDone ==
    /\ snmp.pc = "creating"
    /\ \E ok \in BOOLEAN :
          Becomes([Cur EXCEPT !.snmp =
                     IF ok THEN [snmp EXCEPT !.pc = "testing", !.transport_target = TRUE]
                     ELSE [snmp EXCEPT !.pc = "idle", !.is_connected = FALSE]])

\* the GET of sysDescr returns a value or None; _is_connected = result.success
SnmpTestDone ==
    /\ snmp.pc = "testing"
    /\ \E success \in BOOLEAN :
          Becomes([Cur EXCEPT !.snmp.pc = "idle", !.snmp.is_connected = success])

\* disconnect(): self._is_connected = False
SnmpDisconnect ==
    /\ snmp.pc = "idle"
    /\ snmp.is_connected
    /\ Becomes([Cur EXCEPT !.snmp.is_connected = FALSE])

\* the checks of SNMPConnector.run_audit: the version check, then the
\* community check when the version is v2c and credentials.get("community")
\* is "public" or "private"
snmp_checks(q) ==
    <<[name |-> "SNMP Version Security",
       status |-> IF q.version = "v2c" THEN "warning" ELSE "pass"]>>
    \o (IF q.version = "v2c" /\ q.credentials.community \in {"public", "private"}
        THEN <<[name |-> "Common Community String", status |-> "fail"]>>
        ELSE <<>>)

\* run_audit(): it awaits nothing
SnmpRunAudit ==
    /\ snmp.pc = "idle"
    /\ Becomes([Cur EXCEPT !.snmp.audited = TRUE, !.snmp.checks = snmp_checks(snmp)])

\* -------------------------------------- SNMPConnector: the retrieval calls
\* rows of the device's ifTable
MaxIfs == 1

IfIndexes == 1..MaxIfs

\* the sysDescr of the devices, and the words of descr.lower() that the
\* vendor detection looks for
Descrs == {"MikroTik RouterOS 7.1", "Cisco IOS Software", "Linux"}

descr_words(descr) ==
    CASE descr = "MikroTik RouterOS 7.1" -> {"mikrotik", "routeros"}
      [] descr = "Cisco IOS Software" -> {"cisco", "ios"}
      [] OTHER -> {}

\* what the device answers to a GET of a field
DeviceValue(q, field) ==
    CASE field = "name" -> "sw1"
      [] field = "descr" -> q.descr
      [] field = "uptime" -> "4242"
      [] field = "location" -> "rack 3"
      [] field = "contact" -> "noc"
      [] field = "os_version" -> "7.1"
      [] OTHER -> "RB750"

\* the columns get_interfaces walks, in the order of walk_data
IfKeys == <<"name", "status", "speed", "mac", "in_octets", "out_octets", "errors">>

\* the base OID get_interfaces walks for a column: IF_DESCR, IF_OPER_STATUS,
\* IF_SPEED, IF_PHYS_ADDRESS, IF_IN_OCTETS, IF_OUT_OCTETS, IF_IN_ERRORS
walked_oid(key) ==
    CASE key = "name" -> "IF_DESCR"
      [] key = "status" -> "IF_OPER_STATUS"
      [] key = "mac" -> "IF_PHYS_ADDRESS"
      [] key = "errors" -> "IF_IN_ERRORS"
      [] key = "speed" -> "IF_SPEED"
      [] key = "in_octets" -> "IF_IN_OCTETS"
      [] OTHER -> "IF_OUT_OCTETS"

\* getattr(oids, f"IF_{key.upper()}"): the base OID of the column, the one
\* that was walked
base_oid(key) == walked_oid(key)

\* the value of a column in the row idx of the device's ifTable
IfValue(key, idx) ==
    CASE key = "name" -> [s |-> "eth" \o ToString(idx), n |-> 0, octets |-> <<>>]
      [] key = "status" -> [s |-> "", n |-> IF idx % 2 = 1 THEN 1 ELSE 2, octets |-> <<>>]
      [] key = "mac" -> [s |-> "", n |-> 0, octets |-> <<0, 17, 34, 51, 68, idx>>]
      [] key = "speed" -> [s |-> "", n |-> 1000 * idx, octets |-> <<>>]
      [] key = "in_octets" -> [s |-> "", n |-> 10 * idx, octets |-> <<>>]
      [] key = "out_octets" -> [s |-> "", n |-> 20 * idx, octets |-> <<>>]
      [] OTHER -> [s |-> "", n |-> idx, octets |-> <<>>]

\* the outcomes of one get_cmd or of one batch of bulk_cmd
SnmpOutcomes == {"ok", "errorIndication", "errorStatus", "exception"}

\* faulty variant of get: an exception of get_cmd is not caught
get_uncaught(q, field, outcome) ==
    IF outcome = "ok" THEN [found |-> TRUE, raised |-> FALSE, val |-> DeviceValue(q, field)]
    ELSE [found |-> FALSE, raised |-> outcome = "exception", val |-> ""]

\* _get(oid): the value, or None after an error indication, an error status
\* or an exception
get(q, field, outcome) ==
    IF outcome = "ok" THEN [found |-> TRUE, raised |-> FALSE, val |-> DeviceValue(q, field)]
    ELSE [found |-> FALSE, raised |-> FALSE, val |-> ""]

\* faulty variant of walk: an exception of bulk_cmd is not caught
walk_uncaught(key, n, outcome) ==
    [raised |-> outcome = "exception",
     rows |-> [i \in 1..(IF outcome = "ok" THEN MaxIfs ELSE n) |->
                 [oid |-> [base |-> walked_oid(key), idx |-> i],
                  val |-> IfValue(key, i)]]]

\* _walk(base_oid): the rows of the column, or after an error indication, an
\* error status or an exception the n rows received before it
walk(key, n, outcome) ==
    [raised |-> FALSE,
     rows |-> [i \in 1..(IF outcome = "ok" THEN MaxIfs ELSE n) |->
                 [oid |-> [base |-> walked_oid(key), idx |-> i],
                  val |-> IfValue(key, i)]]]

\* get_idx: oid_str.replace(base + ".", "")
get_idx(oid, base) == IF oid.base = base THEN [oid EXCEPT !.base = ""] ELSE oid

\* the value of a column as get_interfaces stores it
formatted(key, val) ==
    CASE key = "status" -> [val EXCEPT !.s = IF val.n = 1 THEN "up" ELSE "down", !.n = 0]
      [] key = "mac" -> [s |-> "", n |-> 0, octets |-> snmp_mac(val.octets)]
      [] OTHER -> val

\* the interfaces dict: index -> key -> value, for the keys some row gave
interfaces_of(walk_data) ==
    LET Cell == {[idx |-> get_idx(walk_data[c][i].oid, base_oid(IfKeys[c])),
                  key |-> IfKeys[c],
                  val |-> formatted(IfKeys[c], walk_data[c][i].val)] :
                     <<c, i>> \in {p \in (1..Len(walk_data)) \X IfIndexes :
                                     p[2] <= Len(walk_data[p[1]])}}
    IN  [idx \in {x.idx : x \in Cell} |->
            [key \in {x.key : x \in {y \in Cell : y.idx = idx}} |->
                (CHOOSE x \in Cell : x.idx = idx /\ x.key = key).val]]

\* data.get(key, default) of one interface
field_of(data, key, default) == IF key \in DOMAIN data THEN data[key] ELSE default

\* the InterfaceInfo rows
interface_rows(interfaces) ==
    {[idx |-> idx,
      name |-> field_of(interfaces[idx], "name",
                        [s |-> "port-" \o ToString(idx.idx), n |-> 0, octets |-> <<>>]).s,
      status |-> field_of(interfaces[idx], "status",
                          [s |-> "unknown", n |-> 0, octets |-> <<>>]).s,
      speed |-> field_of(interfaces[idx], "speed", [s |-> "", n |-> 0, octets |-> <<>>]).n,
      mac |-> field_of(interfaces[idx], "mac", [s |-> "", n |-> 0, octets |-> <<>>]).octets,
      rx_bytes |-> field_of(interfaces[idx], "in_octets",
                            [s |-> "", n |-> 0, octets |-> <<>>]).n,
      tx_bytes |-> field_of(interfaces[idx], "out_octets",
                            [s |-> "", n |-> 0, octets |-> <<>>]).n,
      errors |-> field_of(interfaces[idx], "errors",
                          [s |-> "", n |-> 0, octets |-> <<>>]).n] :
        idx \in DOMAIN interfaces}

\* the supplementary GETs of get_system_info after the vendor detection
vendor_fields(info) ==
    IF descr_words(info.descr) \cap {"mikrotik", "routeros"} # {}
    THEN <<"os_version", "model">>
    ELSE IF descr_words(info.descr) \cap {"cisco", "ios"} # {}
         THEN <<"model">>
         ELSE <<>>

vendor_of(info) ==
    IF descr_words(info.descr) \cap {"mikrotik", "routeros"} # {} THEN "mikrotik"
    ELSE IF descr_words(info.descr) \cap {"cisco", "ios"} # {} THEN "cisco"
         ELSE "generic"

With(f, k, v) == [x \in DOMAIN f \cup {k} |-> IF x = k THEN v ELSE f[x]]

\* poll_device calls get_system_info: the first GET is sent
SnmpSystemInfo ==
    /\ snmp_poll.pc = "idle"
    /\ snmp_poll.calls = <<>>
    /\ Becomes([Cur EXCEPT !.snmp_poll =
            [snmp_poll EXCEPT
                !.pc = "get",
                !.pending = <<"name", "descr", "uptime", "location", "contact">>]])

\* the call that raised ends the poll: poll_device goes to its except clause
snmp_raise(q, call) ==
    [q EXCEPT !.pc = "raised", !.pending = <<>>, !.calls = Append(@, call) \o <<"raised">>]

\* a GET of get_system_info returns
after_get(q, outcome) ==
    LET field == Head(q.pending)
        got == get(q, field, outcome)
        base == field \in {"name", "descr", "uptime", "location", "contact"}
        info == IF base THEN With(q.info, field, got.val)
                ELSE IF got.found THEN With(q.info, field, got.val) ELSE q.info
        info1 == IF field = "contact" THEN With(info, "vendor", vendor_of(info)) ELSE info
        remaining == IF field = "contact" THEN vendor_fields(info) ELSE Tail(q.pending)
        log == IF outcome = "ok" THEN q.log ELSE q.log \cup {<<"GET", field>>}
    IN  IF got.raised THEN snmp_raise(q, "get_system_info")
        ELSE IF remaining = <<>>
             THEN [q EXCEPT !.pc = "idle", !.pending = <<>>, !.info = <<>>,
                            !.system_info = info1, !.log = log,
                            !.calls = Append(@, "get_system_info")]
             ELSE [q EXCEPT !.pending = remaining, !.info = info1, !.log = log]

SnmpGetDone ==
    /\ snmp_poll.pc = "get"
    /\ \E outcome \in SnmpOutcomes :
          Becomes([Cur EXCEPT !.snmp_poll = after_get(snmp_poll, outcome)])

\* poll_device calls get_interfaces: the first WALK is sent
SnmpInterfaces ==
    /\ snmp_poll.pc = "idle"
    /\ snmp_poll.calls = <<"get_system_info">>
    /\ Becomes([Cur EXCEPT !.snmp_poll =
            [snmp_poll EXCEPT !.pc = "walk", !.pending = IfKeys]])

\* a WALK of get_interfaces returns; after the last one the rows are built
after_walk(q, n, outcome) ==
    LET walked == walk(Head(q.pending), n, outcome)
        walk_data == Append(q.walk_data, walked.rows)
        log == IF outcome = "ok" THEN q.log ELSE q.log \cup {<<"WALK", Head(q.pending)>>}
    IN  IF walked.raised THEN snmp_raise(q, "get_interfaces")
        ELSE IF Tail(q.pending) = <<>>
             THEN [q EXCEPT !.pc = "idle", !.pending = <<>>, !.walk_data = walk_data,
                            !.interfaces = interface_rows(interfaces_of(walk_data)),
                            !.log = log,
                            !.calls = Append(@, "get_interfaces")]
             ELSE [q EXCEPT !.pending = Tail(@), !.walk_data = walk_data, !.log = log]

SnmpWalkDone ==
    /\ snmp_poll.pc = "walk"
    /\ \E outcome \in SnmpOutcomes : \E n \in 0..(MaxIfs - 1) :
          Becomes([Cur EXCEPT !.snmp_poll = after_walk(snmp_poll, n, outcome)])

\* -------------------------------------------------------- CredentialVault
\* most rows of the credential_store table
MaxRows == 2

\* credential names, and the values of a credential map: strings and numbers
CredNames == {"core-sw", "edge-fw"}
Str(s) == [t |-> "str", s |-> s, n |-> 0]
Num(n) == [t |-> "int", s |-> "", n |-> n]

\* the credential maps that are stored
CredMaps ==
    {[username |-> Str("admin"), password |-> Str("s3cret"), port |-> Num(22)],
     [username |-> Str("admin"), password |-> Str("rotated"), port |-> Num(2222)],
     [community |-> Str("public")]}

\* the initialization vectors of Fernet.encrypt
Ivs == {1, 2}

\* the decimal digits json.dumps writes for a number, and the number
\* json.loads reads from them
RECURSIVE digits_of(_)
digits_of(n) == IF n < 10 THEN <<n>> ELSE Append(digits_of(n \div 10), n % 10)

RECURSIVE number_of(_)
number_of(ds) ==
    IF Len(ds) = 1 THEN ds[1]
    ELSE 10 * number_of(SubSeq(ds, 1, Len(ds) - 1)) + ds[Len(ds)]

\* json.dumps(data): an object of string and number tokens
json_dumps(data) ==
    [k \in DOMAIN data |->
        IF data[k].t = "str"
        THEN [kind |-> "string", chars |-> data[k].s, digits |-> <<>>]
        ELSE [kind |-> "number", chars |-> "", digits |-> digits_of(data[k].n)]]

\* json.loads(text)
json_loads(text) ==
    [k \in DOMAIN text |->
        IF text[k].kind = "string" THEN Str(text[k].chars)
        ELSE Num(number_of(text[k].digits))]

\* _encrypt: Fernet.encrypt of json.dumps(data), under some fresh iv
encrypt(data, iv) == [iv |-> iv, ciphertext |-> json_dumps(data)]

\* _decrypt: json.loads of Fernet.decrypt (same master key)
decrypt(token) == json_loads(token.ciphertext)

\* the positions of the rows with the name
RowsNamed(rows, name) == {i \in 1..Len(rows) : rows[i].name = name}

\* store_credential: INSERT INTO credential_store (name, type,
\* encrypted_data); the table has no unique constraint on name
StoreCredential ==
    /\ Len(vault.rows) < MaxRows
    /\ \E name \in CredNames : \E data \in CredMaps : \E iv \in Ivs :
          Becomes([Cur EXCEPT !.vault =
                     [vault EXCEPT
                        !.rows = Append(@, [name |-> name,
                                            encrypted_data |-> encrypt(data, iv)]),
                        !.latest = [n \in DOMAIN @ \cup {name} |->
                                      IF n = name THEN data ELSE @[n]],
                        !.op = "store", !.name = name, !.result = NoCredential]])

\* get_credential: SELECT encrypted_data ... WHERE name = ? and fetch_one,
\* which returns one of the rows with the name (the query has no ORDER BY),
\* decrypted, or None
GetCredential ==
    \E name \in CredNames :
        IF RowsNamed(vault.rows, name) = {}
        THEN Becomes([Cur EXCEPT !.vault = [vault EXCEPT !.op = "get", !.name = name,
                                                          !.result = NoCredential]])
        ELSE \E i \in RowsNamed(vault.rows, name) :
                Becomes([Cur EXCEPT !.vault =
                           [vault EXCEPT
                              !.op = "get", !.name = name,
                              !.result = [found |-> TRUE,
                                          data |-> decrypt(vault.rows[i].encrypted_data)]]])

\* update_credential: UPDATE ... SET encrypted_data = ? WHERE name = ?
UpdateCredential ==
    \E name \in CredNames : \E data \in CredMaps : \E iv \in Ivs :
        /\ RowsNamed(vault.rows, name) # {}
        /\ Becomes([Cur EXCEPT !.vault =
                      [vault EXCEPT
                         !.rows = [i \in 1..Len(@) |->
                                     IF @[i].name = name
                                     THEN [@[i] EXCEPT !.encrypted_data = encrypt(data, iv)]
                                     ELSE @[i]],
                         !.latest = [n \in DOMAIN @ |-> IF n = name THEN data ELSE @[n]],
                         !.op = "update", !.name = name, !.result = NoCredential]])

\* delete_credential: DELETE FROM credential_store WHERE name = ?
DeleteCredential ==
    \E name \in CredNames :
        /\ RowsNamed(vault.rows, name) # {}
        /\ Becomes([Cur EXCEPT !.vault =
                      [vault EXCEPT
                         !.rows = LET keep == {i \in 1..Len(@) : @[i].name # name}
                                      RECURSIVE pick(_)
                                      pick(i) == IF i > Len(vault.rows) THEN <<>>
                                                 ELSE (IF i \in keep THEN <<vault.rows[i]>>
                                                       ELSE <<>>) \o pick(i + 1)
                                  IN  pick(1),
                         !.latest = [n \in DOMAIN @ \ {name} |-> @[n]],
                         !.op = "delete", !.name = name, !.result = NoCredential]])

\* ------------------------------------------- RESTConnector._request
\* what one client.request + raise_for_status can end in: a success status,
\* an error status (HTTPStatusError), httpx.RequestError, asyncio.TimeoutError
TransientStatuses == {"429", "503"}
OtherStatuses == {"401", "404", "500"}
TransportErrors == {"RequestError", "TimeoutError"}
Responses == {"200"} \cup TransientStatuses \cup OtherStatuses \cup TransportErrors

\* faulty variant of wait_time: the wait doubles with every retry
wait_time_doubling(attempt) == 2 ^ (attempt + 1)

\* wait_time = (attempt + 1) * 2 of the except clause for HTTPStatusError
wait_time(attempt) == (attempt + 1) * 2

\* wait_time = (attempt + 1) * 2 of the except clause for RequestError and
\* TimeoutError
request_error_wait_time(attempt) == (attempt + 1) * 2

\* the for loop takes its next value of attempt and calls client.request, or
\* is exhausted and the trailing raise RequestError("Max retries exceeded") runs
next_attempt(q, attempt) ==
    IF attempt < q.max_retries
    THEN [q EXCEPT !.pc = "sending", !.attempt = attempt, !.sent = @ + 1]
    ELSE [q EXCEPT !.pc = "raised", !.error = "exhausted"]

\* faulty variant of after_response: every HTTP error status is retried
after_response_retry_any_status(q, resp) ==
    LET q1 == [q EXCEPT !.responses = Append(@, resp)]
    IN  IF resp = "200" THEN [q1 EXCEPT !.pc = "returned"]
        ELSE IF q.attempt < q.max_retries - 1
             THEN [q1 EXCEPT !.pc = "sleeping",
                             !.slept = Append(@, wait_time(q.attempt))]
             ELSE [q1 EXCEPT !.pc = "raised", !.error = resp]

\* faulty variant of after_response: the last attempt is followed by a
\* backoff sleep too
after_response_one_more(q, resp) ==
    LET q1 == [q EXCEPT !.responses = Append(@, resp)]
    IN  IF resp = "200" THEN [q1 EXCEPT !.pc = "returned"]
        ELSE IF resp \in OtherStatuses
             THEN [q1 EXCEPT !.pc = "raised", !.error = resp]
             ELSE IF q.attempt <= q.max_retries - 1
                  THEN [q1 EXCEPT !.pc = "sleeping",
                                  !.slept = Append(@, wait_time(q.attempt))]
                  ELSE [q1 EXCEPT !.pc = "raised", !.error = resp]

\* the body of the loop after "await client.request": return the response, go
\* to the backoff sleep, or re-raise
after_response(q, resp) ==
    LET q1 == [q EXCEPT !.responses = Append(@, resp)]
    IN  IF resp = "200" THEN [q1 EXCEPT !.pc = "returned"]
        ELSE IF resp \in TransportErrors
             THEN IF q.attempt < q.max_retries - 1
                  THEN [q1 EXCEPT !.pc = "sleeping",
                           !.slept = Append(@, request_error_wait_time(q.attempt))]
                  ELSE [q1 EXCEPT !.pc = "raised", !.error = resp]
             ELSE IF resp \in TransientStatuses /\ q.attempt < q.max_retries - 1
                  THEN [q1 EXCEPT !.pc = "sleeping",
                                  !.slept = Append(@, wait_time(q.attempt))]
                  ELSE [q1 EXCEPT !.pc = "raised", !.error = resp]

\* _request is called: the first pass of the loop, up to "await client.request"
RequestStart ==
    /\ req.pc = "idle"
    /\ req' = next_attempt(req, 0)
    /\ UNCHANGED dm_vars

\* client.request returns or raises
Respond ==
    /\ req.pc = "sending"
    /\ \E resp \in Responses : req' = after_response(req, resp)
    /\ UNCHANGED dm_vars

\* asyncio.sleep(wait_time) returns; continue
SleepDone ==
    /\ req.pc = "sleeping"
    /\ req' = next_attempt(req, req.attempt + 1)
    /\ UNCHANGED dm_vars

\* ------------------------------------------ poll_device on a RESTConnector
\* the keys of the endpoints map that the calls of a poll look up
Endpoints == {"system", "interfaces"}

\* the endpoint of the k-th retrieval call of poll_device
endpoint_of(k) == IF k = 1 THEN "system" ELSE "interfaces"

\* RESTConnector.connect(): the client is made if there is none,
\* _is_connected = True, return True
rest_connect == "true"

\* await connector.connect() returns in poll_device
RestConnectDone ==
    \E r \in TaskSet :
        /\ r.pc = "connecting"
        /\ Runs(after_connect(Take(Cur, r), r, rest_connect))

\* get_system_info or get_interfaces up to "await client.request" of _request
RestRequest ==
    \E r \in TaskSet :
        /\ r.pc = "retrieve"
        /\ req.pc = "idle"
        /\ endpoint_of(r.k) \in rest.endpoints
        /\ Runs([Cur EXCEPT !.req = next_attempt(req, 0), !.rest.contacted = TRUE])

\* what the call returns when the profile has no endpoint for it: a default
\* dict from get_system_info, [] from get_interfaces
rest_default(k) == IF k = 1 THEN "default" ELSE "empty"

\* the value of a retrieval call as after_retrieve takes it
returned_value(k, value) ==
    IF value = "raised" THEN "raised" ELSE IF k = 1 THEN "data" ELSE value

\* the connector keeps what the call returned
kept(q, k, value) ==
    IF k = 1 THEN [q EXCEPT !.system_info = value] ELSE [q EXCEPT !.interfaces = value]

\* get_system_info or get_interfaces without an endpoint: no request is made
RestLocal ==
    \E r \in TaskSet :
        /\ r.pc = "retrieve"
        /\ req.pc = "idle"
        /\ endpoint_of(r.k) \notin rest.endpoints
        /\ Runs(after_retrieve(
                  [Take(Cur, r) EXCEPT !.rest = kept(rest, r.k, rest_default(r.k))],
                  r, returned_value(r.k, rest_default(r.k))))

\* what the profile's parser can make of a 200 response: resp.json() or the
\* parser raises, or a dict ("info") or a list comes out
Parsed(k) == IF k = 1 THEN {"info", "raised"} ELSE {"empty", "some", "raised"}

\* faulty variant of rest_value: the exception of _request or of the parser
\* is not caught
rest_value_uncaught(k, q, parsed) ==
    IF q.pc = "raised" \/ parsed = "raised" THEN "raised" ELSE parsed

\* the try/except of get_system_info and of get_interfaces: the parsed
\* response, or {} (or []) when _request or the parser raised
rest_value(k, q, parsed) ==
    IF q.pc = "raised" \/ parsed = "raised" THEN "empty" ELSE parsed

\* _request returns or raises to get_system_info or get_interfaces, which
\* returns to poll_device
RestRetrieveDone ==
    \E r \in TaskSet :
        /\ r.pc = "retrieve"
        /\ req.pc \in {"returned", "raised"}
        /\ \E parsed \in Parsed(r.k) :
              LET value == rest_value(r.k, req, parsed)
              IN  Runs(after_retrieve(
                        [Take(Cur, r) EXCEPT
                            !.req = NoRequest(req.max_retries),
                            !.rest = [kept(rest, r.k, IF value = "raised" THEN "none"
                                                      ELSE value)
                                        EXCEPT !.got_ok = @ \/ req.pc = "returned"]],
                        r, returned_value(r.k, value)))

\* RESTConnector.test_connection up to "await client.request" of _request:
\* await self.connect() makes the client and sets _is_connected
RestTestConnect ==
    \E r \in TaskSet :
        /\ r.pc = "testing"
        /\ req.pc = "idle"
        /\ Runs([Cur EXCEPT !.is_connected[r.conn] = (rest_connect = "true"),
                            !.req = next_attempt(req, 0),
                            !.rest.contacted = TRUE])

\* _request returns or raises to test_connection, which returns its result to
\* test_device; the connector is left as connect() set it
RestTestDone ==
    \E r \in TaskSet :
        /\ r.pc = "testing"
        /\ req.pc \in {"returned", "raised"}
        /\ Runs(Put([Take(Cur, r) EXCEPT !.req = NoRequest(req.max_retries)],
                    [r EXCEPT !.pc = "done",
                              !.result = IF req.pc = "returned" THEN "ok" ELSE "fail"]))

\* ------------------------------------------- the device routes of the API
\* the addresses a device row can be given
TargetIps == {"192.168.1.10", "192.168.1.20"}

\* PUT /devices/{id}: crud.update_device writes the new ip into the row; the
\* Device Manager is not told
UpdateDeviceRoute ==
    /\ task = EmptyBag /\ pa.pc = "idle"
    /\ \E d \in Stored : \E address \in TargetIps \ {target.store[d]} :
          Runs([Cur EXCEPT !.target.store[d] = address])

\* DELETE /devices/{id}: crud.delete_device removes the row; the Device
\* Manager is not told
DeleteDeviceRoute ==
    /\ task = EmptyBag /\ pa.pc = "idle"
    /\ \E d \in Stored :
          Runs([Cur EXCEPT !.db_status[d] = "absent", !.cfg[d] = NoConfig,
                           !.target.store[d] = "none"])

\* ------------------------------------------------------- specifications
Next ==
    \/ CallPollDevice
    \/ CallRefreshDeviceData
    \/ CallRunDeviceAudit
    \/ CallTestDevice
    \/ PollAllStart
    \/ PollAllLoaded
    \/ ChildStart
    \/ PollAllDone
    \/ Acquire
    \/ LoadDone
    \/ CredLookupDone
    \/ VaultDone
    \/ ConnectDone
    \/ RetrieveDone
    \/ UpdateDeviceDone
    \/ RunAuditDone
    \/ AuditLogDone
    \/ AlertDone
    \/ TestDone
    \/ Return

\* a usable device (registered type; credential named in config_json or
\* through credential_id, held by the vault, and well-formed for the
\* connector's constructor) or one of an unregistered connector type
MainConfigs ==
    {[registered |-> TRUE, cred |-> "name_ok"],
     [registered |-> TRUE, cred |-> "id_ok"],
     [registered |-> FALSE, cred |-> "none"]}

\* the store holds one device
Init == InitWith(MainConfigs, {1})

Spec == Init /\ [][Next]_vars

\* number of coroutines of the bag that are in the set T
NumDirect(T) == BagCardinality([r \in T \cap TaskSet |-> task[r]])

\* the entry points called one at a time: a call is made only when no
\* coroutine is in flight (with one stored device no poll ever waits for a
\* permit)
Quiet == task = EmptyBag /\ pa.pc = "idle"

SoloPollDevice == Quiet /\ CallPollDevice
SoloRefreshDeviceData == Quiet /\ CallRefreshDeviceData
SoloRunDeviceAudit == Quiet /\ CallRunDeviceAudit
SoloTestDevice == Quiet /\ CallTestDevice
SoloPollAll == Quiet /\ PollAllStart

NextOneAtATime ==
    \/ SoloPollDevice
    \/ SoloRefreshDeviceData
    \/ SoloRunDeviceAudit
    \/ SoloTestDevice
    \/ SoloPollAll
    \/ PollAllLoaded
    \/ ChildStart
    \/ PollAllDone
    \/ LoadDone
    \/ CredLookupDone
    \/ VaultDone
    \/ ConnectDone
    \/ RetrieveDone
    \/ UpdateDeviceDone
    \/ RunAuditDone
    \/ AuditLogDone
    \/ AlertDone
    \/ TestDone
    \/ Return

SpecOneAtATime == Init /\ [][NextOneAtATime]_vars

\* the entry points called one at a time on a device row of any configuration
InitAnyConfig == InitWith(AllConfigs, {1})

SpecAnyConfig == InitAnyConfig /\ [][NextOneAtATime]_vars

\* one _request call on a REST connector of any max_retries, against a
\* server that answers each attempt in any way
InitRequest ==
    /\ InitManager({NoConfig}, {})
    /\ \E m \in 0..MaxRetries : req = NoRequest(m)

NextRequest ==
    \/ RequestStart
    \/ Respond
    \/ SleepDone

SpecRequest == InitRequest /\ [][NextRequest]_vars

\* poll_all alone: every device of the fleet has a row, and the only entry
\* point called is poll_all, once
FleetConfigs ==
    {[registered |-> TRUE, cred |-> "name_ok"],
     [registered |-> FALSE, cred |-> "none"]}

InitPollAll == InitWith(FleetConfigs, DeviceIds)

\* the one poll_all call of the behaviour
PollAllAlone == ops = 0 /\ PollAllStart

NextPollAll ==
    \/ PollAllAlone
    \/ PollAllLoaded
    \/ ChildStart
    \/ PollAllDone
    \/ Acquire
    \/ VaultDone
    \/ ConnectDone
    \/ RetrieveDone
    \/ UpdateDeviceDone

SpecPollAll == InitPollAll /\ [][NextPollAll]_vars

\* poll_all alone with devices whose connector calls hang: under the limit n
\* the devices with an id below n, which are fewer than n, and never the last
\* device
Hung == {d \in DeviceIds : d < pa.n /\ d < NumDevices}

\* a call on the connector that has not returned
InConnectorCall(r) == r.pc \in {"connecting", "retrieve"}

\* the next step of the coroutine r
TaskStep(r) ==
    \/ ChildStartOf(r)
    \/ AcquireOf(r)
    \/ VaultDoneOf(r)
    \/ ConnectDoneOf(r)
    \/ RetrieveDoneOf(r)
    \/ UpdateDeviceDoneOf(r)

\* the coroutine of a device that is not hung runs on
Prompt(d) ==
    /\ d \notin Hung
    /\ \E r \in TaskSet : r.dev = d /\ TaskStep(r)

\* the event loop runs every task that is ready, and the awaits of a device
\* that is not hung return; a hung call returns at its transport timeout, of
\* which nothing is assumed, so no step of a hung device is required to happen
InitHungPolls == InitWith({[registered |-> TRUE, cred |-> "name_ok"]}, DeviceIds)

SpecHungPolls ==
    /\ InitHungPolls
    /\ [][NextPollAll]_vars
    /\ \A d \in DeviceIds : WF_vars(Prompt(d))

\* run_network_audit alone, on a store whose rows earlier polls have left
\* online or offline
InitNetworkAudit ==
    /\ InitStore(FleetConfigs, DeviceIds, {"online", "offline"})
    /\ Apart({})

NextNetworkAudit ==
    \/ NetworkAuditStart
    \/ NetworkAuditLoaded
    \/ ChildStart
    \/ VaultDone
    \/ ConnectDone
    \/ RetrieveDone
    \/ UpdateDeviceDone
    \/ NetworkAuditGathered
    \/ NetworkLogDone
    \/ NetworkAlertDone

SpecNetworkAudit == InitNetworkAudit /\ [][NextNetworkAudit]_vars

\* run_network_audit after one earlier refresh_device_data call has filled
\* the cache
EarlierRefresh == na.pc = "idle" /\ ops = 0 /\ SoloRefreshDeviceData

NextAuditAfterRefresh ==
    \/ EarlierRefresh
    \/ LoadDone
    \/ Return
    \/ NetworkAuditStart
    \/ NetworkAuditLoaded
    \/ ChildStart
    \/ VaultDone
    \/ ConnectDone
    \/ RetrieveDone
    \/ UpdateDeviceDone
    \/ NetworkAuditGathered
    \/ NetworkLogDone
    \/ NetworkAlertDone

InitAuditAfterRefresh ==
    /\ InitStore({[registered |-> TRUE, cred |-> "name_ok"]}, DeviceIds,
                 {"online", "offline"})
    /\ Apart({})

SpecAuditAfterRefresh == InitAuditAfterRefresh /\ [][NextAuditAfterRefresh]_vars

\* the duplicate-IP analysis of run_network_audit on every fleet: each device
\* offline, or online with the cache entry of a light poll, or refreshed by a
\* connector of some kind that knows some hosts
InitDuplicateIps ==
    /\ InitStore(FleetConfigs, DeviceIds, {"online", "offline"})
    /\ Apart({"net"})
    /\ \E kind \in [DeviceIds -> ArpKinds] :
       \E seen \in [DeviceIds -> SeenBy("rest")] :
          /\ \A d \in DeviceIds : seen[d] \in SeenBy(kind[d])
          /\ \A d \in DeviceIds : db_status[d] = "online" <=> seen[d].state # "offline"
          /\ cfg = [d \in DeviceIds |-> [registered |-> TRUE, cred |-> "name_ok"]]
          /\ net = [NoAnalysis EXCEPT !.kind = kind, !.seen = seen]

NextDuplicateIps ==
    \/ GatherArpTables
    \/ CheckDuplicateIps

SpecDuplicateIps == InitDuplicateIps /\ [][NextDuplicateIps]_vars

\* the duplicate-MAC analysis of run_network_audit on every fleet: each device
\* offline, or online with the cache entry of a light poll, or refreshed by a
\* connector of some kind that reports a forwarding table
InitDuplicateMacs ==
    /\ InitStore(FleetConfigs, DeviceIds, {"online", "offline"})
    /\ Apart({"net"})
    /\ \E kind \in [DeviceIds -> ArpKinds] :
       \E state \in [DeviceIds -> {"offline", "polled", "refreshed"}] :
       \E fdb \in [DeviceIds -> FdbOf("snmp") \cup FdbOf("cisco")] :
          /\ \A d \in DeviceIds :
                fdb[d] \in (IF state[d] = "refreshed" THEN FdbOf(kind[d]) ELSE {{}})
          /\ \A d \in DeviceIds : db_status[d] = "online" <=> state[d] # "offline"
          /\ cfg = [d \in DeviceIds |-> [registered |-> TRUE, cred |-> "name_ok"]]
          /\ net = [NoAnalysis EXCEPT
                      !.kind = kind,
                      !.seen = [d \in DeviceIds |->
                                  [state |-> state[d], hosts |-> [ip \in Ips |-> NoEntry]]],
                      !.fdb = fdb]

NextDuplicateMacs ==
    \/ GatherArpTables
    \/ CheckDuplicateMacs

SpecDuplicateMacs == InitDuplicateMacs /\ [][NextDuplicateMacs]_vars

\* the orphan analysis of run_network_audit on every fleet: each managed
\* device has a configured address and is offline, or online with the cache
\* entry of a light poll, or refreshed over SNMP with any ARP table
InitOrphanDevices ==
    /\ InitStore(FleetConfigs, DeviceIds, {"online", "offline"})
    /\ Apart({"net"})
    /\ \E seen \in [DeviceIds -> SeenBy("snmp")] :
       \E address \in [DeviceIds -> InventoryIps] :
          /\ \A d \in DeviceIds : db_status[d] = "online" <=> seen[d].state # "offline"
          /\ cfg = [d \in DeviceIds |-> [registered |-> TRUE, cred |-> "name_ok"]]
          /\ net = [NoAnalysis EXCEPT
                      !.kind = [d \in DeviceIds |-> "snmp"],
                      !.seen = seen,
                      !.inventory = [d \in DeviceIds |-> DeviceRow(address[d])]]

NextOrphanDevices ==
    \/ GatherArpTables
    \/ CheckOrphanDevices

SpecOrphanDevices == InitOrphanDevices /\ [][NextOrphanDevices]_vars

\* one SSH connector of any configured device type: connect, the capability
\* calls and disconnect in any order, one call at a time
InitSsh ==
    /\ InitStore({NoConfig}, {}, {"unknown"})
    /\ Apart({"ssh"})
    /\ \E t \in DeviceTypes : ssh = NewSession(t)

NextSsh ==
    \/ SshConnect
    \/ SshConnectDone
    \/ SshProbeDone
    \/ SshVersionDone
    \/ SshDisconnect
    \/ SshCall
    \/ SshReconnectDone
    \/ SshCommandDone

SpecSsh == InitSsh /\ [][NextSsh]_vars

\* one SNMP connector of any version and community: connect, run_audit and
\* disconnect in any order
InitSnmp ==
    /\ InitStore({NoConfig}, {}, {"unknown"})
    /\ Apart({"snmp"})
    /\ \E version \in SnmpVersions : \E community \in Communities :
          snmp = NewSnmp(version, community)

NextSnmp ==
    \/ SnmpConnect
    \/ SnmpTransportDone
    \/ SnmpTestDone
    \/ SnmpDisconnect
    \/ SnmpRunAudit

SpecSnmp == InitSnmp /\ [][NextSnmp]_vars

\* the credential vault alone, on an empty credential_store table: store,
\* get, update and delete in any order
InitVault ==
    /\ InitStore({NoConfig}, {}, {"unknown"})
    /\ Apart({"vault"})
    /\ vault = EmptyVault

NextVault ==
    \/ StoreCredential
    \/ GetCredential
    \/ UpdateCredential
    \/ DeleteCredential

SpecVault == InitVault /\ [][NextVault]_vars

\* ---------------------------------------------------------- the scheduler
\* the ids of the default jobs, and the ids add_custom_job is called with
DefaultJobs ==
    {"poll_all_devices", "check_agent_heartbeats", "scheduled_audit", "cache_cleanup"}

JobIds == DefaultJobs \cup {"verify_test_job"}

\* the values of audit.scheduled_time: strings of characters
AuditTimes ==
    {DefaultAuditTime, <<"2", "3", ":", "3", "0">>, <<"2", "5", ":", "0", "0">>,
     <<"2", "a", "m">>}

\* the jobs that may wait in a scheduler that is not running
MaxPending == 2

Digits == <<"0", "1", "2", "3", "4", "5", "6", "7", "8", "9">>

\* audit_time.split(":")
RECURSIVE split(_)
split(s) ==
    IF \A i \in 1..Len(s) : s[i] # ":" THEN <<s>>
    ELSE LET i == Min({j \in 1..Len(s) : s[j] = ":"})
         IN  <<SubSeq(s, 1, i - 1)>> \o split(SubSeq(s, i + 1, Len(s)))

\* int(part) succeeds, and its value
is_int(part) ==
    part # <<>> /\ \A i \in 1..Len(part) : \E n \in 1..10 : Digits[n] = part[i]

int(part) ==
    number_of([i \in 1..Len(part) |-> (CHOOSE n \in 1..10 : Digits[n] = part[i]) - 1])

\* the trigger of the scheduled audit: hour, minute = map(int,
\* audit_time.split(":")) and CronTrigger(hour=hour, minute=minute), which
\* raises on a field out of range; on any exception CronTrigger(hour=2,
\* minute=0)
audit_trigger(audit_time) ==
    LET parts == split(audit_time)
    IN  IF /\ Len(parts) = 2
           /\ is_int(parts[1]) /\ is_int(parts[2])
           /\ int(parts[1]) <= 23 /\ int(parts[2]) <= 59
        THEN <<int(parts[1]), int(parts[2])>>
        ELSE <<2, 0>>

\* an IntervalTrigger
Interval == <<>>

\* the jobs of a sequence that have the id
Registered(jobs, id) == {i \in 1..Len(jobs) : jobs[i].id = id}

\* the job store's add with replace_existing=True: a job with the id is
\* replaced by the new one, otherwise the job is added
real_add_job(jobs, job) ==
    IF Registered(jobs, job.id) # {}
    THEN [i \in 1..Len(jobs) |-> IF jobs[i].id = job.id THEN job ELSE jobs[i]]
    ELSE Append(jobs, job)

\* self.scheduler.add_job(wrapped_job, trigger=trigger, id=job_id,
\* replace_existing=True): into the job store when the scheduler is running,
\* otherwise onto the pending jobs
add_job(q, job) ==
    IF q.running THEN [q EXCEPT !.jobs = real_add_job(@, job)]
    ELSE [q EXCEPT !.pending = Append(@, job)]

\* add_custom_job(job_id, func, trigger)
add_custom_job(q, job_id, trigger) ==
    [add_job(q, [id |-> job_id, trigger |-> trigger])
        EXCEPT !.log = "Registered job"]

\* faulty variant of _register_default_jobs: nothing is registered when the
\* scheduled time is invalid
register_default_jobs_no_fallback(q) ==
    LET polled == add_custom_job(q, "poll_all_devices", Interval)
        beats == add_custom_job(polled, "check_agent_heartbeats", Interval)
        audit == IF audit_trigger(q.scheduled_time) = <<2, 0>>
                    /\ q.scheduled_time # DefaultAuditTime
                 THEN beats
                 ELSE add_custom_job(beats, "scheduled_audit",
                                     audit_trigger(q.scheduled_time))
    IN  add_custom_job(audit, "cache_cleanup", Interval)

\* _register_default_jobs: the four default jobs, the scheduled audit at the
\* configured time or, when that is invalid, at 02:00
register_default_jobs(q) ==
    LET polled == add_custom_job(q, "poll_all_devices", Interval)
        beats == add_custom_job(polled, "check_agent_heartbeats", Interval)
        audit == add_custom_job(beats, "scheduled_audit",
                                audit_trigger(q.scheduled_time))
    IN  add_custom_job(audit, "cache_cleanup", Interval)

\* self.scheduler.start(): the pending jobs go to the job store in the order
\* they were added, each with its replace_existing
RECURSIVE add_pending(_, _)
add_pending(jobs, pending) ==
    IF pending = <<>> THEN jobs
    ELSE add_pending(real_add_job(jobs, Head(pending)), Tail(pending))

scheduler_start(q) ==
    [q EXCEPT !.jobs = add_pending(@, q.pending), !.pending = <<>>,
              !.running = TRUE]

Called(q, call, job_id) == [q EXCEPT !.call = call, !.job_id = job_id]

\* start()
SchedulerStart ==
    LET q == Called(sched, "start", "none")
    IN  Becomes([Cur EXCEPT !.sched =
            IF ~q.enabled
            THEN [q EXCEPT !.log = "Scheduler module is disabled in config"]
            ELSE IF q.running
            THEN [q EXCEPT !.log = "Scheduler is already running"]
            ELSE [scheduler_start(register_default_jobs(q))
                     EXCEPT !.log = "NetVault Scheduler started"]])

\* stop(): shutdown() of a running scheduler, which also empties its job
\* store (a store in memory)
SchedulerStop ==
    LET q == Called(sched, "stop", "none")
    IN  Becomes([Cur EXCEPT !.sched =
            IF q.running
            THEN [q EXCEPT !.running = FALSE, !.jobs = <<>>,
                           !.log = "NetVault Scheduler stopped"]
            ELSE q])

\* add_custom_job(job_id, func, trigger) called from outside
AddCustomJob ==
    /\ sched.running \/ Len(sched.pending) < MaxPending
    /\ \E job_id \in JobIds :
          Becomes([Cur EXCEPT !.sched =
              add_custom_job(Called(sched, "add_custom_job", job_id), job_id,
                             Interval)])

\* a sequence without its element i
Without(s, i) == SubSeq(s, 1, i - 1) \o SubSeq(s, i + 1, Len(s))

\* remove_job(job_id): self.scheduler.remove_job(job_id) removes the job from
\* the job store of a running scheduler, or the first pending job with the id
\* of one that is not running, and raises JobLookupError when there is none,
\* which is logged
RemoveJob ==
    \E job_id \in JobIds :
        LET q == Called(sched, "remove_job", job_id)
            from == IF q.running THEN q.jobs ELSE q.pending
        IN  Becomes([Cur EXCEPT !.sched =
                IF Registered(from, job_id) = {}
                THEN [q EXCEPT !.log = "Failed to remove job"]
                ELSE IF q.running
                THEN [q EXCEPT !.jobs = Without(@, Min(Registered(@, job_id))),
                               !.log = "Removed job"]
                ELSE [q EXCEPT !.pending = Without(@, Min(Registered(@, job_id))),
                               !.log = "Removed job"]])

InitScheduler ==
    /\ InitStore({NoConfig}, {}, {"unknown"})
    /\ Apart({"sched"})
    /\ \E enabled \in BOOLEAN : \E scheduled_time \in AuditTimes :
          sched = NewScheduler(enabled, scheduled_time)

NextScheduler ==
    \/ SchedulerStart
    \/ SchedulerStop
    \/ AddCustomJob
    \/ RemoveJob

SpecScheduler == InitScheduler /\ [][NextScheduler]_vars

\* the gated entry points interleaved: poll_device, refresh_device_data and
\* poll_all called on a store of one device while at most one other call is
\* in flight
OneOtherCall ==
    NumDirect({r \in TaskSet : r.parent = 0}) + (IF pa.pc = "idle" THEN 0 ELSE 1) <= 1

PairedPollDevice == OneOtherCall /\ CallPollDevice
PairedRefreshDeviceData == OneOtherCall /\ CallRefreshDeviceData
PairedPollAll == OneOtherCall /\ PollAllStart

NextGated ==
    \/ PairedPollDevice
    \/ PairedRefreshDeviceData
    \/ PairedPollAll
    \/ PollAllLoaded
    \/ ChildStart
    \/ PollAllDone
    \/ Acquire
    \/ LoadDone
    \/ VaultDone
    \/ ConnectDone
    \/ RetrieveDone
    \/ UpdateDeviceDone
    \/ Return

SpecGated == InitWith(FleetConfigs, {1}) /\ [][NextGated]_vars

\* poll_all over a store of one REST device, with any endpoints map and any
\* max_retries, against a server that answers each request in any way
InitRestPoll ==
    /\ InitStore({[registered |-> TRUE, cred |-> "name_ok"]}, {1}, {"unknown"})
    /\ Apart({"req", "rest"})
    /\ \E m \in 0..MaxRetries : req = NoRequest(m)
    /\ \E endpoints \in SUBSET Endpoints : rest = NewRest(endpoints)

NextRestPoll ==
    \/ PollAllAlone
    \/ PollAllLoaded
    \/ ChildStart
    \/ PollAllDone
    \/ VaultDone
    \/ RestConnectDone
    \/ RestRequest
    \/ RestLocal
    \/ Respond
    \/ SleepDone
    \/ RestRetrieveDone
    \/ UpdateDeviceDone

SpecRestPoll == InitRestPoll /\ [][NextRestPoll]_vars

\* test_device on a store of one REST device, called when nothing is in
\* flight
NextRestTest ==
    \/ SoloTestDevice
    \/ LoadDone
    \/ VaultDone
    \/ RestTestConnect
    \/ Respond
    \/ SleepDone
    \/ RestTestDone
    \/ Return

SpecRestTest == InitRestPoll /\ [][NextRestTest]_vars

\* the inventory is edited through the API between operations of the Device
\* Manager: refreshes build connectors and cache entries, poll_all reloads
\* the device list
NextInventory ==
    \/ UpdateDeviceRoute
    \/ DeleteDeviceRoute
    \/ SoloRefreshDeviceData
    \/ SoloPollAll
    \/ PollAllLoaded
    \/ ChildStart
    \/ PollAllDone
    \/ LoadDone
    \/ VaultDone
    \/ ConnectDone
    \/ RetrieveDone
    \/ UpdateDeviceDone
    \/ Return

SpecInventory ==
    InitWith({[registered |-> TRUE, cred |-> "name_ok"]}, {1}) /\ [][NextInventory]_vars

\* one poll of an SNMP device: get_system_info, then get_interfaces, every
\* GET and WALK ending in any way
InitSnmpPoll ==
    /\ InitStore({NoConfig}, {}, {"unknown"})
    /\ Apart({"snmp_poll"})
    /\ \E descr \in Descrs : snmp_poll = NoSnmpPoll(descr)

NextSnmpPoll ==
    \/ SnmpSystemInfo
    \/ SnmpGetDone
    \/ SnmpInterfaces
    \/ SnmpWalkDone

SpecSnmpPoll == InitSnmpPoll /\ [][NextSnmpPoll]_vars

\* the InterfaceInfo attribute a walked column ends in, and what the row idx
\* of the device's ifTable gives for it
ColumnOf(row, key) ==
    CASE key = "name" -> [s |-> row.name, n |-> 0, octets |-> <<>>]
      [] key = "status" -> [s |-> row.status, n |-> 0, octets |-> <<>>]
      [] key = "mac" -> [s |-> "", n |-> 0, octets |-> row.mac]
      [] key = "speed" -> [s |-> "", n |-> row.speed, octets |-> <<>>]
      [] key = "in_octets" -> [s |-> "", n |-> row.rx_bytes, octets |-> <<>>]
      [] key = "out_octets" -> [s |-> "", n |-> row.tx_bytes, octets |-> <<>>]
      [] OTHER -> [s |-> "", n |-> row.errors, octets |-> <<>>]

CallReturned(call) == \E i \in 1..Len(snmp_poll.calls) : snmp_poll.calls[i] = call

\* C31: a GET or WALK that fails aborts only its own sub-collection: no
\* retrieval call raises, so the calls after it still run; get_system_info
\* returns the device's value for every field whose GET succeeded (and the
\* empty string for the base fields whose GET failed); get_interfaces returns
\* at most one row per ifTable index, and for every column whose walk
\* succeeded every index has a row that carries the device's value of it
C31_FailureAbortsOneSubCollection ==
    /\ snmp_poll.pc # "raised"
    /\ CallReturned("get_system_info") =>
          /\ \A f \in {"name", "descr", "uptime", "location", "contact"} :
                snmp_poll.system_info[f] =
                    IF <<"GET", f>> \in snmp_poll.log THEN ""
                    ELSE DeviceValue(snmp_poll, f)
          /\ \A i \in 1..Len(vendor_fields(snmp_poll.system_info)) :
                LET f == vendor_fields(snmp_poll.system_info)[i]
                IN  IF <<"GET", f>> \in snmp_poll.log
                    THEN f \notin DOMAIN snmp_poll.system_info
                    ELSE snmp_poll.system_info[f] = DeviceValue(snmp_poll, f)
    /\ CallReturned("get_interfaces") =>
          /\ Cardinality(snmp_poll.interfaces) <= MaxIfs
          /\ \A c \in 1..Len(IfKeys) :
                <<"WALK", IfKeys[c]>> \notin snmp_poll.log =>
                    \A i \in IfIndexes :
                        \E row \in snmp_poll.interfaces :
                            /\ row.idx = [base |-> "", idx |-> i]
                            /\ ColumnOf(row, IfKeys[c]) =
                                  formatted(IfKeys[c], IfValue(IfKeys[c], i))

\* both calls have returned although the name walk and a GET failed: the
\* row has the default name and the status of the device
C31_Witness ==
    /\ snmp_poll.calls = <<"get_system_info", "get_interfaces">>
    /\ {<<"WALK", "name">>, <<"GET", "location">>} \subseteq snmp_poll.log
    /\ <<"WALK", "status">> \notin snmp_poll.log
    /\ <<"GET", "name">> \notin snmp_poll.log
    /\ snmp_poll.system_info.name = "sw1"
    /\ snmp_poll.system_info.location = ""
    /\ \E row \in snmp_poll.interfaces : row.name = "port-1" /\ row.status = "up"

\* get_connector under every configuration of a device row, called through
\* test_device (which does nothing before it and nothing to the cache after)
InitGetConnector == InitWith(AllConfigs, {1})

NextGetConnector ==
    \/ CallTestDevice
    \/ LoadDone
    \/ CredLookupDone
    \/ VaultDone
    \/ TestDone
    \/ Return

SpecGetConnector == InitGetConnector /\ [][NextGetConnector]_vars

\* ------------------------------------------------------------ properties
\* the number of coroutines in flight whose locals are in T
NumTasks(T) == BagCardinality([r \in T \cap TaskSet |-> task[r]])

\* the step puts a coroutine with the locals r into the bag
Arrives(r) == CopiesIn(r, task') > CopiesIn(r, task)

\* a poll or refresh between the start of connect() and the end of disconnect()
InSection(r) ==
    /\ r.kind \in Gated
    /\ r.conn # 0
    /\ r.pc \in {"connecting", "retrieve", "db_write"}

\* a poll or refresh inside "async with self._semaphore"
HoldsPermit(r) == r.kind \in Gated /\ r.sem # 0 /\ r.pc # "acquire"

\* get_connector has returned to the coroutine r
Returned(r) ==
    /\ r.pc \notin {"spawned", "acquire", "gc_load", "gc_cred", "gc_vault"}
    /\ r.result # "unknown"

\* C1: a poll that reaches its status write without an exception passes
\* "offline" when connect() returned false (or no connector could be built),
\* "warning" when connect() returned true and get_interfaces() was empty,
\* "online" when connect() returned true and interfaces were returned, and
\* never any other status.
C1_PollStatusMapping ==
    \A r \in TaskSet :
        (r.kind = "poll" /\ r.pc = "db_write" /\ ~r.exc) =>
            /\ r.status \in {"offline", "warning", "online"}
            /\ r.connected \in {"none", "false"} => r.status = "offline"
            /\ (r.connected = "true" /\ r.ifaces = "empty") => r.status = "warning"
            /\ (r.connected = "true" /\ r.ifaces = "some") => r.status = "online"
            /\ r.connected = "none" <=> r.conn = 0

C1_Witness ==
    \E r \in TaskSet :
        /\ r.kind = "poll" /\ r.pc = "db_write" /\ ~r.exc
        /\ r.connected = "true" /\ r.ifaces = "empty" /\ r.status = "warning"

\* C2: while a poll_all(N) that runs alone is gathering, at most N of its
\* polls are between the start of connect() and the end of disconnect().
C2_PollAllBound ==
    pa.pc = "gather" => NumTasks({r \in TaskSet : InSection(r)}) <= pa.n

C2_Witness ==
    /\ pa.pc = "gather"
    /\ NumTasks({r \in TaskSet : InSection(r)}) = pa.n
    /\ \E r \in TaskSet : r.pc = "acquire"

\* C3 (as claimed): in every interleaving of polls, refreshes and poll_all
\* calls the number of coroutines inside the gated section is at most the
\* limit most recently configured (that of the semaphore now installed).
C3_SharedSemaphoreBound ==
    NumTasks({r \in TaskSet : HoldsPermit(r)}) <= sem_cap[semaphore]

\* C4: poll_device, refresh_device_data and run_device_audit return, on every
\* path, with their connector disconnected, and a retrieval or run_audit call
\* is only made by a coroutine whose connect() returned true.
C4_DisconnectOnEveryExit ==
    /\ [](\A r \in TaskSet :
            r.pc \in {"retrieve", "run_audit"} => r.connected = "true")
    /\ [][\A r \in BagToSet(task') :
            (/\ Arrives(r)
             /\ r.pc = "done"
             /\ r.kind \in {"poll", "refresh", "audit"}
             /\ r.conn # 0) => ~is_connected'[r.conn]]_vars

C4_Witness ==
    \E r \in TaskSet :
        /\ r.pc = "done" /\ r.kind \in {"poll", "refresh", "audit"}
        /\ r.exc /\ r.conn # 0 /\ ~is_connected[r.conn]

\* C5 (as claimed): in every interleaving of operations on one device, a
\* retrieval or run_audit call is never issued on a connector whose
\* is_connected is false.
C5_NoCallWhileDisconnected ==
    [][\A r \in BagToSet(task') :
          (Arrives(r) /\ r.pc \in {"retrieve", "run_audit"})
              => is_connected'[r.conn]]_vars

\* C6 (as claimed): when a poll attempt on a device finishes and no other
\* attempt on that device is still running, the status the manager holds for
\* the device is the one this attempt, the last to finish, wrote.
C6_StatusOfLastFinished ==
    [][\A r \in BagToSet(task') :
          (/\ Arrives(r)
           /\ r.pc = "done"
           /\ r.kind \in Gated
           /\ r.status # "none"
           /\ \A o \in BagToSet(task') :
                 (o.kind \in Gated /\ o.dev = r.dev) => o.pc = "done")
              => devices'[r.dev] = r.status]_vars

\* C7 (as claimed): never are two polls or refreshes of the same device both
\* between the start of connect() and the end of disconnect().
C7_PollsOfOneDeviceSerialized ==
    \A d \in DeviceIds :
        NumTasks({r \in TaskSet : InSection(r) /\ r.dev = d}) <= 1

\* C8 (as claimed): every poll attempt on a known device, by poll_device or
\* by refresh_device_data, successful or not, has made exactly one status
\* write (update_device) by the time it returns.
C8_OneStatusWritePerAttempt ==
    \A r \in TaskSet :
        (r.kind \in Gated /\ r.pc = "done" /\ r.result # "unknown")
            => r.writes = 1

\* a coroutine that can take its next step
CanStep(r) ==
    \/ r.pc \in {"spawned", "gc_vault", "connecting", "retrieve", "db_write"}
    \/ r.pc = "acquire" /\ sem_value[r.sem] > 0

\* C9: while poll_all gathers, a poll that raised has set its device
\* "offline" and stops no other poll: every poll that ended without raising
\* has made its own status and cache update, some unfinished poll can always
\* run on, and once all are done poll_all returns.
C9_PollAllIsolatesFailures ==
    pa.pc = "gather" =>
        /\ \A r \in Children :
              r.pc = "done" =>
                 /\ r.exc => (r.status = "offline" /\ devices[r.dev] = "offline")
                 /\ ~r.exc => (r.status \in {"offline", "warning", "online"}
                               /\ devices[r.dev] = r.status)
                 /\ r.status \in {"warning", "online"} => cache[r.dev] = PollKeys
        /\ (\E r \in Children : r.pc # "done") => (\E r \in Children : CanStep(r))
        /\ (\A r \in Children : r.pc = "done") => ENABLED PollAllDone

C9_Witness ==
    /\ pa.pc = "gather"
    /\ \A r \in Children : r.pc = "done"
    /\ \E r \in Children : r.exc /\ devices[r.dev] = "offline"
    /\ \E r \in Children : ~r.exc /\ r.status = "online" /\ cache[r.dev] = PollKeys

C11_NoConnectorMeansUnusable ==
    [][\A r \in BagToSet(task') :
          (Arrives(r) /\ r.gc # "none") =>
              /\ r.conn = 0
              /\ ~r.exc
              /\ cache' = cache
              /\ CASE r.kind = "poll" ->
                        /\ r.status = "offline"
                        /\ r.writes = 1
                        /\ r.pc = "db_write" => (devices'[r.dev] = "offline"
                                                 /\ db_status' = db_status)
                   [] r.kind = "test" ->
                        r.pc = "done" /\ r.result = "fail" /\ db_status' = db_status
                   [] OTHER ->
                        /\ r.pc = "done" /\ r.writes = 0 /\ r.result = "none"
                        /\ db_status' = db_status]_vars

C11_Witness ==
    \E r \in TaskSet :
        /\ r.kind = "poll" /\ r.pc = "db_write" /\ r.gc = "not_in_vault"
        /\ r.conn = 0 /\ r.status = "offline" /\ devices[r.dev] = "offline"

\* C12 (as claimed): in every interleaving of get_connector calls each device
\* id has at most one connector instance, which is the one every call for
\* that id returns (the cached one), and no instance serves two device ids.
C12_OneConnectorPerDevice ==
    /\ \A r \in TaskSet : r.conn # 0 => connectors[r.dev] = r.conn
    /\ \A r1, r2 \in TaskSet :
          (r1.conn # 0 /\ r1.conn = r2.conn) => r1.dev = r2.dev
    /\ \A d1, d2 \in DeviceIds :
          (connectors[d1] # 0 /\ connectors[d1] = connectors[d2]) => d1 = d2

\* the keys a successful poll_device / refresh_device_data leaves in the cache
KeysOf(kind) == IF kind = "poll" THEN PollKeys ELSE RefreshKeys

\* C13: a successful poll_device leaves exactly system_info, interfaces and
\* last_poll in the device's cache entry (nothing of an earlier refresh), and a
\* successful refresh_device_data exactly its six keys: at the step that
\* stores the entry, and, with no other attempt on the device overlapping it,
\* still when the operation has returned.
C13_CacheReplacedWholesale ==
    /\ [][\A r \in BagToSet(task') :
            (Arrives(r) /\ r.pc = "db_write" /\ r.status \in {"online", "warning"})
                => cache'[r.dev] = KeysOf(r.kind)]_vars
    /\ [](\A r \in TaskSet :
            (r.kind \in Gated /\ r.pc = "done" /\ r.status \in {"online", "warning"})
                => cache[r.dev] = KeysOf(r.kind))

C13_Witness ==
    \E r \in TaskSet :
        /\ r.kind = "poll" /\ r.pc = "done" /\ r.status = "online" /\ r.parent = 0
        /\ cache[r.dev] = PollKeys
        /\ ops = MaxOps

Ended == req.pc \in {"returned", "raised"}

\* C15: one _request call makes at most max_retries HTTP attempts whatever
\* the server answers; it returns exactly when an attempt succeeded, after one
\* backoff per earlier attempt (429, 429, 200: three attempts, two retries);
\* when every attempt is answered 429 it raises that error after exactly
\* max_retries attempts, sleeps max_retries - 1 times and attempts nothing more.
C15_AtMostMaxRetriesAttempts ==
    /\ req.sent <= req.max_retries
    /\ req.sent = Len(req.responses) + (IF req.pc = "sending" THEN 1 ELSE 0)
    /\ req.pc = "returned" <=>
          (req.responses # <<>> /\ req.responses[Len(req.responses)] = "200")
    /\ req.responses = <<"429", "429", "200">> =>
          (req.pc = "returned" /\ req.sent = 3 /\ req.slept = <<2, 4>>)
    /\ (/\ req.max_retries > 0
        /\ Len(req.responses) = req.max_retries
        /\ \A i \in 1..Len(req.responses) : req.responses[i] = "429") =>
          /\ req.pc = "raised" /\ req.error = "429"
          /\ req.sent = req.max_retries
          /\ Len(req.slept) = req.max_retries - 1
    /\ Ended => ~ENABLED NextRequest

C15_Witness ==
    /\ req.max_retries = MaxRetries
    /\ req.pc = "raised"
    /\ req.sent = MaxRetries
    /\ \A i \in 1..MaxRetries : req.responses[i] = "429"

\* C16: an error status other than 429 and 503 is raised to the caller at
\* once, with no backoff sleep and no further attempt (as the first answer:
\* after exactly one attempt); every answer that was followed by another
\* attempt was a 429, a 503, a transport error or a timeout.
C16_NonTransientNotRetried ==
    LET n == Len(req.responses)
    IN  /\ (n > 0 /\ req.responses[n] \in OtherStatuses) =>
              /\ req.pc = "raised" /\ req.error = req.responses[n]
              /\ req.sent = n
              /\ Len(req.slept) = n - 1
              /\ ~ENABLED NextRequest
        /\ \A i \in 1..(n - 1) :
              req.responses[i] \in TransientStatuses \cup TransportErrors
        /\ Len(req.slept) = (IF req.pc \in {"sleeping", "sending"} \/ n = 0
                             THEN n ELSE n - 1)

C16_Witness ==
    /\ req.responses = <<"404">>
    /\ req.pc = "raised" /\ req.error = "404"
    /\ req.sent = 1 /\ req.slept = <<>>
    /\ req.max_retries > 1

\* the alerts an audit result calls for: one per check that is fail or
\* warning, in the order of the checks
RECURSIVE ExpectedAlerts(_)
ExpectedAlerts(checks) ==
    IF checks = <<>> THEN <<>>
    ELSE (CASE Head(checks) = "fail" -> <<"critical">>
            [] Head(checks) = "warning" -> <<"warning">>
            [] OTHER -> <<>>) \o ExpectedAlerts(Tail(checks))

IsPrefix(s, t) == Len(s) <= Len(t) /\ \A i \in 1..Len(s) : s[i] = t[i]

\* C17: the audit log run_device_audit stores has status error if some check
\* failed, else warning if some check warned, else success; alerts are stored
\* only after the log, one per fail or warning check in order (critical for
\* fail, warning for warning, none for pass), and a run that returns its
\* result has stored the log and all of these alerts.
C17_AuditClassifiedAndAlerted ==
    \A r \in TaskSet :
        r.kind = "audit" =>
            LET any(s) == \E i \in 1..Len(r.checks) : r.checks[i] = s
                class == IF any("fail") THEN "error"
                         ELSE IF any("warning") THEN "warning" ELSE "success"
            IN  /\ r.log \in {"none", class}
                /\ r.alerts # <<>> => r.log = class
                /\ IsPrefix(r.alerts, ExpectedAlerts(r.checks))
                /\ (r.pc = "done" /\ r.result # "none") =>
                      /\ r.result = class
                      /\ r.log = class
                      /\ r.alerts = ExpectedAlerts(r.checks)

C17_Witness ==
    \E r \in TaskSet :
        /\ r.kind = "audit" /\ r.pc = "done"
        /\ r.checks = <<"warning", "fail">>
        /\ r.result = "error" /\ r.log = "error"
        /\ r.alerts = <<"warning", "critical">>

\* C18 (as claimed, for run_device_audit): while the store can be reached
\* (the device row was read, no store call of the audit raised) a device
\* audit returns a result object, never None, also when no connector can be
\* obtained, connect() returns false or run_audit() raises.
C18_DeviceAuditReturnsResult ==
    \A r \in TaskSet :
        (/\ r.kind = "audit" /\ r.pc = "done"
         /\ r.io = "ok" /\ r.gc # "not_found")
            => r.result # "none"

\* C19: run_network_audit hands to gather one refresh_device_data for each
\* device that is online in the map load_devices left, and for no other; a
\* refresh that fails or raises stops neither the others nor the audit, which
\* leaves gather as soon as all are done; the audit then stores one audit log
\* under device id 0 with the status of its checks and, after it, one alert
\* under device id 0 per fail or warning check, and it ends otherwise only when
\* the store raises.
C19_NetworkAuditGlobalScope ==
    /\ [][(na.pc = "loading" /\ na'.pc = "gather") =>
            /\ na'.online = {d \in DeviceIds : devices'[d] = "online"}
            /\ \A d \in DeviceIds :
                  CopiesIn(NewTask("refresh", d, 2), task') =
                      IF devices'[d] = "online" THEN 1 ELSE 0]_vars
    /\ [][na'.pc = "raised" => na.pc \in {"log", "alert"}]_vars
    /\ [](/\ \A r \in NetChildren : r.kind = "refresh" /\ r.dev \in na.online
          /\ \A d \in DeviceIds :
                NumTasks({r \in TaskSet : r.parent = 2 /\ r.dev = d}) =
                    IF d \in na.online THEN 1 ELSE 0
          /\ na.pc = "gather" =>
                /\ (\E r \in NetChildren : r.pc # "done") =>
                       (\E r \in NetChildren : CanStep(r))
                /\ (\A r \in NetChildren : r.pc = "done") => ENABLED NetworkAuditGathered
          /\ Len(na.logs) <= 1
          /\ \A i \in 1..Len(na.logs) :
                na.logs[i] = [device_id |-> GlobalDeviceId,
                              status |-> network_status(na.checks)]
          /\ \A i \in 1..Len(na.alerts) : na.alerts[i].device_id = GlobalDeviceId
          /\ IsPrefix([i \in 1..Len(na.alerts) |-> na.alerts[i].severity],
                      ExpectedAlerts(na.checks))
          /\ na.alerts # <<>> => Len(na.logs) = 1
          /\ na.pc \in {"alert", "done"} => Len(na.logs) = 1
          /\ na.pc = "done" => Len(na.alerts) = Len(ExpectedAlerts(na.checks)))

C19_Witness ==
    /\ na.pc = "done"
    /\ na.online = DeviceIds
    /\ \A r \in NetChildren : r.pc = "done" /\ r.status # "online"
    /\ \E r \in NetChildren : r.exc
    /\ \E r \in NetChildren : r.conn = 0
    /\ na.logs = <<[device_id |-> GlobalDeviceId, status |-> "success"]>>
    /\ na.alerts = <<>>

\* the hardware addresses the audited devices know for the IP
HwKnown(ip) ==
    {net.seen[d].hosts[ip].hw : d \in WithArp(net)} \ {<<>>}

ChecksOf(ip) == {c \in net.checks : c.ip = ip}

\* C20: after the duplicate-IP analysis, an IP has a check exactly when the
\* ARP tables of the audited devices map it to more than one distinct MAC:
\* then it has one check, "Duplicate IP Detection" at fail level, listing each
\* of these MACs once; an IP that several devices see with the same MAC has
\* no check.
C20_DuplicateIpIffDistinctMacs ==
    net.pc = "checked" =>
        \A ip \in Ips :
            IF Cardinality(HwKnown(ip)) > 1
            THEN /\ Cardinality(ChecksOf(ip)) = 1
                 /\ \A c \in ChecksOf(ip) :
                       /\ c.name = "Duplicate IP Detection"
                       /\ c.status = "fail"
                       /\ Cardinality(c.macs) = Cardinality(HwKnown(ip))
            ELSE ChecksOf(ip) = {}

\* the places where the audited devices have the hardware address in their
\* forwarding tables
Locations(hw) ==
    UNION {{<<d, e.port>> : e \in {x \in net.fdb[d] : x.hw = hw}} : d \in WithArp(net)}

\* the strings the connectors write for the hardware address
Spellings(hw) == {snmp_mac(hw), cisco_mac(cisco_print(hw))}

MacChecksOf(hw) == {c \in net.checks : c.mac \in Spellings(hw)}

\* C21: after the duplicate-MAC analysis, a MAC has a check exactly when the
\* MAC tables of the audited devices hold it on more than one distinct
\* device:port pair: then it has one check, at warning level, listing each of
\* these locations once (the same port name on two devices is two locations,
\* sightings on one device:port in several VLANs are one); otherwise none.
C21_DuplicateMacIffDistinctLocations ==
    net.pc = "checked_macs" =>
        \A hw \in HwAddrs :
            IF Cardinality(Locations(hw)) > 1
            THEN /\ Cardinality(MacChecksOf(hw)) = 1
                 /\ \A c \in MacChecksOf(hw) :
                       /\ c.name = "Duplicate MAC Detection"
                       /\ c.status = "warning"
                       /\ c.ports = {location(l[1], l[2]) : l \in Locations(hw)}
            ELSE MacChecksOf(hw) = {}

\* some audited device has the IP in its ARP table
InSomeArpTable(ip) ==
    ip \in Ips /\ \E d \in WithArp(net) : net.seen[d].hosts[ip] # NoEntry

\* some managed device, of any status, is configured with the IP
Managed(ip) == \E d \in DeviceIds : net.inventory[d].ip_address = ip

\* C22: after the orphan analysis, an IP has a check exactly when it is in
\* the ARP table of some audited device and is the configured address of no
\* managed device, online or not: then it has one check, "Orphan Device
\* Detection" at warning level; an IP of a managed device has none.
C22_OrphanIffSeenAndUnmanaged ==
    net.pc = "checked_orphans" =>
        /\ \A ip \in Ips \cup InventoryIps :
              LET found == {c \in net.checks : c.ip = ip}
              IN  IF InSomeArpTable(ip) /\ ~Managed(ip)
                  THEN found = {[name |-> "Orphan Device Detection",
                                 status |-> "warning", ip |-> ip]}
                  ELSE found = {}
        /\ \A c \in net.checks : c.ip \in Ips

C22_Witness ==
    /\ net.pc = "checked_orphans"
    /\ \E d \in DeviceIds :
          /\ net.seen[d].state = "offline"
          /\ net.inventory[d].ip_address = "10.0.0.5"
    /\ \A d \in WithArp(net) : net.inventory[d].ip_address # "10.0.0.5"
    /\ InSomeArpTable("10.0.0.5")
    /\ InSomeArpTable("10.0.0.6")
    /\ {c.ip : c \in net.checks} = {"10.0.0.6"}

\* C23: the audit log of run_network_audit has status error if some network
\* check is fail, else warning if some is warning, else success; a run that
\* returns has stored one alert per fail or warning check, in the order of the
\* checks, critical for fail and warning for warning, and none when there are
\* no findings.
C23_NetworkStatusPrecedence ==
    LET fails == count(na.checks, "fail")
        warnings == count(na.checks, "warning")
        class == IF fails > 0 THEN "error"
                 ELSE IF warnings > 0 THEN "warning" ELSE "success"
    IN  /\ \A i \in 1..Len(na.logs) : na.logs[i].status = class
        /\ na.pc = "done" =>
              /\ Len(na.logs) = 1
              /\ Len(na.alerts) = fails + warnings
              /\ \A i \in 1..Len(na.alerts) :
                    na.alerts[i].severity =
                        IF na.checks[i] = "fail" THEN "critical" ELSE "warning"
              /\ na.checks = <<>> => (class = "success" /\ na.alerts = <<>>)

C23_Witness ==
    /\ na.pc = "done"
    /\ na.checks = <<"warning", "fail">>
    /\ na.logs = <<[device_id |-> GlobalDeviceId, status |-> "error"]>>
    /\ na.alerts = <<[device_id |-> GlobalDeviceId, severity |-> "warning"],
                     [device_id |-> GlobalDeviceId, severity |-> "critical"]>>

\* C24 (as claimed): when the device type is not configured, a probe
\* response containing "RouterOS" makes the type mikrotik, one containing
\* "Cisco" makes it cisco, and when neither the probe nor "show version"
\* contains one of them the type is unknown; with type unknown every
\* capability call returns an empty collection.
C24_VendorDetection ==
    /\ (ssh.pc = "idle" /\ ssh.probed = "output") =>
          /\ "RouterOS" \in ssh.probe => ssh.device_type = "mikrotik"
          /\ ("Cisco" \in ssh.probe /\ "RouterOS" \notin ssh.probe)
                => ssh.device_type = "cisco"
          /\ ("RouterOS" \notin ssh.probe /\ "Cisco" \notin ssh.probe
                /\ "Cisco" \notin ssh.version) => ssh.device_type = "unknown"
    /\ (ssh.pc = "idle" /\ ssh.device_type = "unknown" /\ ssh.method \in Capabilities)
          => ssh.result = "empty"

\* C25 (as claimed, on the SSH connector): a retrieval call whose command
\* fails (exec_command raises or times out, or the connector cannot connect)
\* returns an empty collection to its caller and never raises.
C25_RetrievalNeverRaises ==
    (ssh.pc = "idle" /\ ssh.method \in Capabilities) => ssh.result # "raised"

\* the checks of the last run_audit, as name and status
SnmpChecks == {snmp.checks[i] : i \in 1..Len(snmp.checks)}

\* C26 (as claimed): run_audit on a v2c connector always contains a warning
\* version check, and a fail community check whenever the community the
\* connector uses is "public" or "private", also when it is "public" because
\* none was configured; on a v3 connector it contains a pass version check
\* and no community check.
C26_SnmpAuditFlagsDefaults ==
    snmp.audited =>
        IF snmp.version = "v2c"
        THEN /\ [name |-> "SNMP Version Security", status |-> "warning"] \in SnmpChecks
             /\ snmp.auth_community \in {"public", "private"} =>
                   [name |-> "Common Community String", status |-> "fail"] \in SnmpChecks
        ELSE /\ [name |-> "SNMP Version Security", status |-> "pass"] \in SnmpChecks
             /\ \A c \in SnmpChecks : c.name # "Common Community String"

\* C27 (as claimed): decrypting what was encrypted returns the credential
\* map, so get_credential(name) returns a map equal to the one last stored
\* under the name, and none for a name that holds no credential.
C27_VaultRoundTrip ==
    /\ \A data \in CredMaps : \A iv \in Ivs : decrypt(encrypt(data, iv)) = data
    /\ vault.op = "get" =>
          IF vault.name \in DOMAIN vault.latest
          THEN vault.result = [found |-> TRUE, data |-> vault.latest[vault.name]]
          ELSE vault.result = NoCredential

\* how many jobs of the job store have the id
Copies(q, id) == Cardinality(Registered(q.jobs, id))

\* C28: while the scheduler runs no job id is registered twice; a start()
\* that starts the scheduler leaves each of the four default ids registered
\* exactly once (the scheduled audit at the configured time, or at 02:00
\* when that is invalid); start() on a running scheduler changes no job;
\* add_custom_job on a running scheduler leaves its id registered exactly
\* once and the other jobs as they were; remove_job(id) on a running
\* scheduler leaves no job with the id.
C28_DefaultJobsOnce ==
    [][LET q == sched'
       IN  /\ q.running => \A id \in JobIds : Copies(q, id) <= 1
           /\ (q.call = "start" /\ q.enabled /\ ~sched.running) =>
                 /\ q.running
                 /\ \A id \in DefaultJobs : Copies(q, id) = 1
                 /\ \E i \in 1..Len(q.jobs) :
                       q.jobs[i] = [id |-> "scheduled_audit",
                                    trigger |-> audit_trigger(q.scheduled_time)]
           /\ (q.call = "start" /\ sched.running) =>
                 (q.running /\ q.jobs = sched.jobs)
           /\ (q.call = "add_custom_job" /\ sched.running) =>
                 /\ Copies(q, q.job_id) = 1
                 /\ \A id \in JobIds \ {q.job_id} :
                       Copies(q, id) = Copies(sched, id)
           /\ (q.call = "remove_job" /\ sched.running) =>
                 Copies(q, q.job_id) = 0]_vars

C28_Witness ==
    /\ sched.running
    /\ sched.log = "Scheduler is already running"
    /\ sched.scheduled_time = <<"2", "5", ":", "0", "0">>
    /\ \A id \in DefaultJobs \ {"cache_cleanup"} : Copies(sched, id) = 1
    /\ Copies(sched, "cache_cleanup") = 0
    /\ Copies(sched, "verify_test_job") = 1

\* C29: while a poll_all(N) that runs alone gathers, a poll inside a connector
\* call holds one permit of the installed semaphore, and the free permits and
\* the polls holding one add up to N; and with fewer than N devices whose
\* connector calls hang, the poll of every other device ends whether or not
\* the hung calls return.
C29_HungDeviceOneSlot ==
    /\ [](pa.pc = "gather" =>
            /\ \A r \in Children :
                  InConnectorCall(r) =>
                      (HoldsPermit(r) /\ r.sem = semaphore /\ task[r] = 1)
            /\ sem_value[semaphore] + NumTasks({r \in Children : HoldsPermit(r)})
                  = pa.n)
    /\ \A d \in DeviceIds :
          (pa.pc = "gather" /\ d \notin Hung
                /\ \E r \in Children : r.dev = d /\ r.pc # "done")
             ~> (\E r \in Children : r.dev = d /\ r.pc = "done")

C29_Witness ==
    /\ pa.pc = "gather"
    /\ pa.n = 2
    /\ \E r \in Children : r.dev = 1 /\ r.pc = "connecting"
    /\ \E r \in Children : r.dev = 2 /\ r.pc = "done" /\ r.status = "online"
    /\ sem_value[semaphore] = 1

\* C30: the k-th wait of a _request call is 2 * k seconds (2, 4, 6, ...),
\* whether the answer it follows was a 429 or 503 or a transport error or
\* timeout; a request is asleep only after such an answer to an attempt that
\* is not the last, so a call makes at most max_retries - 1 waits and none
\* after its final attempt.
C30_LinearBackoff ==
    /\ \A k \in 1..Len(req.slept) :
          /\ req.slept[k] = 2 * k
          /\ req.responses[k] \in TransientStatuses \cup TransportErrors
    /\ req.max_retries > 0 => Len(req.slept) <= req.max_retries - 1
    /\ req.max_retries = 0 => req.slept = <<>>
    /\ req.pc = "sleeping" =>
          (Len(req.slept) = Len(req.responses) /\ req.sent < req.max_retries)
    /\ (req.max_retries > 0 /\ req.sent = req.max_retries) =>
          (req.pc # "sleeping" /\ Len(req.slept) = req.sent - 1)

C30_Witness ==
    /\ req.max_retries = 4
    /\ req.responses = <<"TimeoutError", "429", "503", "RequestError">>
    /\ req.slept = <<2, 4, 6>>
    /\ req.pc = "raised" /\ req.error = "RequestError"

\* a poll or refresh that has been called and has not returned
InFlight(r) == r.kind \in Gated /\ r.pc # "done"

\* C32: every exit path of poll_device and refresh_device_data gives back the
\* permit it took: a coroutine that has returned holds none, and whenever no
\* poll or refresh is in flight the semaphore installed in the manager has
\* all the permits of its capacity.
C32_PermitsAllReleased ==
    /\ \A r \in TaskSet : (r.kind \in Gated /\ r.pc = "done") => r.sem = 0
    /\ (\A r \in TaskSet : ~InFlight(r)) =>
            sem_value[semaphore] = sem_cap[semaphore]

\* a poll_all under a new limit has finished although one of its polls had
\* to wait for the permit a refresh held, and all permits are back
C32_Witness ==
    /\ pa.pc = "gather"
    /\ \A r \in TaskSet : ~InFlight(r)
    /\ \E r \in TaskSet : r.kind = "poll" /\ r.pc = "done" /\ r.exc
    /\ sem_cap[semaphore] < DefaultConcurrency
    /\ sem_value[semaphore] = sem_cap[semaphore]

\* C33 (as claimed): whenever no operation is in flight, the status the
\* manager holds in memory for every loaded device is the status persisted in
\* the store, in every interleaving of status updates and reloads.
C33_MemoryStatusIsStoredStatus ==
    (task = EmptyBag /\ pa.pc = "idle") =>
        \A d \in DeviceIds : devices[d] # "absent" => devices[d] = db_status[d]

\* the step leaves the status (in memory, when loaded, and in the store) and
\* the cache entry of the device d as they were
Untouched(d) ==
    /\ db_status'[d] = db_status[d]
    /\ cache'[d] = cache[d]
    /\ devices[d] # "absent" => devices'[d] = devices[d]

\* C34: refresh_device_data writes status and last_seen only after all five
\* retrieval calls have returned, and then writes "online" whatever
\* get_interfaces returned; a refresh that got no connector, whose connect()
\* returned false or raised, or one of whose retrieval calls raised, has made
\* no write, and no step of it changes the device's status or cache entry
\* except the steps of the success path.
C34_RefreshWritesOnlyOnSuccess ==
    /\ [](\A r \in TaskSet : r.kind = "refresh" =>
            /\ r.writes <= 1
            /\ r.writes = 1 => (r.status = "online" /\ ~r.exc /\ r.conn # 0)
            /\ (r.exc \/ r.connected \in {"false", "raised"}) => r.writes = 0)
    /\ [][/\ (task = EmptyBag /\ \E r \in BagToSet(task') : r.kind = "refresh") =>
               \A d \in DeviceIds : Untouched(d)
          /\ \A r \in TaskSet : (r.kind = "refresh" /\ r.pc # "done") =>
               \/ Untouched(r.dev)
               \/ /\ r.pc = "retrieve" /\ r.k = Retrievals("refresh")
                  /\ r.connected = "true" /\ ~r.exc
                  /\ cache'[r.dev] = RefreshKeys
                  /\ devices'[r.dev] = "online"
                  /\ db_status'[r.dev] = db_status[r.dev]
               \/ /\ r.pc = "db_write" /\ r.status = "online"
                  /\ db_status'[r.dev] = "online"
                  /\ cache' = cache /\ devices' = devices]_vars

\* a refresh whose get_interfaces returned nothing has set an offline device
\* online
C34_Witness ==
    \E r \in TaskSet :
        /\ r.kind = "refresh" /\ r.pc = "db_write" /\ r.ifaces = "empty"
        /\ r.status = "online"
        /\ devices[r.dev] = "online"
        /\ db_status[r.dev] = "offline"
        /\ cache[r.dev] = RefreshKeys

\* C35 (as claimed): the analyses of a run_network_audit use, of an online
\* device whose refresh of this run failed (it made no status write), no ARP
\* and no MAC table: all_data holds ARP and MAC entries only of devices whose
\* refresh of this run succeeded.
C35_OnlyFreshDataAnalysed ==
    na.pc \in {"log", "alert", "done"} =>
        \A r \in NetChildren :
            (r.pc = "done" /\ r.writes = 0 /\ r.dev \in DOMAIN na.all_data) =>
                na.all_data[r.dev] \cap {"arp_table", "mac_table"} = {}

\* C36: RESTConnector.connect() returns true before any HTTP request is sent,
\* so a poll of a device with a REST connector never takes the "offline"
\* paths and no retrieval call raises into poll_device; when none of the
\* poll's HTTP requests was answered 200, every retrieval call that made a
\* request returned an empty collection and the status written is "warning".
C36_RestPollNeverOffline ==
    \A r \in TaskSet : (r.kind = "poll" /\ r.conn # 0) =>
        /\ r.pc = "connecting" => (~rest.contacted /\ req.sent = 0)
        /\ r.connected \in {"none", "true"}
        /\ ~r.exc
        /\ r.status \in {"none", "warning", "online"}
        /\ (r.status # "none" /\ ~rest.got_ok) =>
              /\ r.status = "warning"
              /\ rest.interfaces = "empty"
              /\ rest.system_info =
                    IF "system" \in rest.endpoints THEN "empty" ELSE "default"

\* both requests of the poll were made and failed after all their attempts,
\* and "warning" is being written
C36_Witness ==
    \E r \in TaskSet :
        /\ r.kind = "poll" /\ r.pc = "db_write" /\ r.status = "warning"
        /\ rest.endpoints = Endpoints
        /\ rest.contacted /\ ~rest.got_ok
        /\ rest.system_info = "empty" /\ rest.interfaces = "empty"
        /\ devices[r.dev] = "warning"

\* C37 (as claimed): test_device never raises and returns with the device's
\* cached connector disconnected, whether the test succeeded or failed.
C37_TestLeavesConnectorDisconnected ==
    /\ \A r \in TaskSet : (r.kind = "test" /\ r.pc = "done") =>
            /\ ~r.exc
            /\ r.conn # 0 => ~is_connected[r.conn]
    /\ task = EmptyBag =>
            \A d \in DeviceIds : connectors[d] # 0 => ~is_connected[connectors[d]]

\* C38 (as claimed): the SNMP connector and the Cisco SSH parser write one
\* hardware address as the same string, so an IP that the refreshed SNMP and
\* Cisco devices of a fleet all see with one hardware address has no
\* "Duplicate IP Detection" check.
C38_OneMacStringAcrossConnectors ==
    net.pc = "checked" =>
        \A ip \in Ips :
            (/\ \A d \in WithArp(net) : net.kind[d] \in {"snmp", "cisco"}
             /\ \E d \in WithArp(net) :
                   net.kind[d] = "snmp" /\ net.seen[d].hosts[ip] # NoEntry
             /\ \E d \in WithArp(net) :
                   net.kind[d] = "cisco" /\ net.seen[d].hosts[ip] # NoEntry
             /\ Cardinality(HwKnown(ip)) = 1) =>
                /\ \A d \in WithArp(net) : \A e \in net.all_data[d].arp_table :
                      e.ip = ip => e.mac = snmp_mac(CHOOSE hw \in HwKnown(ip) : TRUE)
                /\ ChecksOf(ip) = {}
                /\ ip \notin DOMAIN net.dup_ips

\* the in-memory device list is the one in the store: the same ids with the
\* same ip
ListIsCurrent ==
    \A d \in DeviceIds :
        /\ devices[d] = "absent" <=> db_status[d] = "absent"
        /\ target.loaded[d] = target.store[d]

\* C39 (as claimed): once the device list has been reloaded and nothing is in
\* flight, every cached connector has the ip configured for its device id,
\* and a device id that is not in the list has no cached connector and no
\* poll-cache entry.
C39_ConnectorsMatchReloadedList ==
    (Quiet /\ ListIsCurrent) =>
        \A d \in DeviceIds :
            /\ (devices[d] # "absent" /\ connectors[d] # 0) =>
                  target.conn[connectors[d]] = target.loaded[d]
            /\ devices[d] = "absent" => (connectors[d] = 0 /\ cache[d] = {})

====
